---- MODULE Spec2Model ----
(***************************************************************************)
(* ModelWatcher: the scan / normalize / diff / persist / notify pipeline.  *)
(*                                                                         *)
(* JavaScript values are modelled as tagged strings:                       *)
(*   "s:..."  a string,  "n:..."  a number,  "null",  and "undef" for the  *)
(*   JavaScript value undefined (also the value of a missing key).         *)
(* A JavaScript object is a function from its own keys to values.          *)
(***************************************************************************)
EXTENDS Integers, Sequences, FiniteSets, TLC

(***************************************************************************)
(* Bounds of the model.                                                    *)
(***************************************************************************)
MaxRuns == 3
MaxRetry == 1
MaxLen == 2
MaxItems == 60

(***************************************************************************)
(* Values and objects.                                                     *)
(***************************************************************************)
Undefined == "undef"

Val(obj, key) == IF key \in DOMAIN obj THEN obj[key] ELSE Undefined

Falsy(v) == v \in {"undef", "null", "s:", "n:0", "false"}

\* JSON.stringify of a primitive value: the JSON text, or undefined.
JSONstringify(v) ==
  CASE v = "undef" -> "undefined"
    [] v = "null"  -> "null"
    [] v = "s:"    -> "\"\""
    [] v = "s:a"   -> "\"a\""
    [] v = "s:A"   -> "\"A\""
    [] v = "s:b"   -> "\"b\""
    [] v = "s:c"   -> "\"c\""
    [] v = "s:x"   -> "\"x\""
    [] v = "s:y"   -> "\"y\""
    [] v = "n:0"   -> "0"
    [] v = "n:1"   -> "1"
    [] v = "n:2"   -> "2"
    [] v = "false" -> "false"
    [] OTHER       -> v

\* JSON.parse(JSON.stringify(obj)) of one object: keys whose value is
\* undefined are not written, every other key comes back with its value.
JSONroundtrip(obj) ==
  [k \in {q \in DOMAIN obj : obj[q] # Undefined} |-> obj[k]]

SeqMap(Op(_), s) == [i \in 1..Len(s) |-> Op(s[i])]

RECURSIVE SeqFilter(_, _)
SeqFilter(Test(_), s) ==
  IF s = <<>> THEN <<>>
  ELSE IF Test(Head(s)) THEN <<Head(s)>> \o SeqFilter(Test, Tail(s))
       ELSE SeqFilter(Test, Tail(s))

Ids(models) == {Val(models[i], "id") : i \in 1..Len(models)}

(***************************************************************************)
(* scanner.js: getModelChanges and compareModels.                          *)
(***************************************************************************)
getModelChangesAlways(oldModel, newModel) ==
  [key \in (DOMAIN oldModel) \cup (DOMAIN newModel) |->
     [old |-> Val(oldModel, key), new |-> Val(newModel, key)]]

getModelChangesNewKeysOnly(oldModel, newModel) ==
  LET changed == {key \in DOMAIN newModel :
                    JSONstringify(Val(oldModel, key)) #
                    JSONstringify(Val(newModel, key))}
  IN [key \in changed |->
        [old |-> Val(oldModel, key), new |-> Val(newModel, key)]]

getModelChanges(oldModel, newModel) ==
  LET allKeys == (DOMAIN oldModel) \cup (DOMAIN newModel)
      changed == {key \in allKeys :
                    JSONstringify(Val(oldModel, key)) #
                    JSONstringify(Val(newModel, key))}
  IN [key \in changed |->
        [old |-> Val(oldModel, key), new |-> Val(newModel, key)]]

\* oldModels.find(m => m.id === newModel.id): the first match, or undefined
FindIndex(models, id) ==
  LET hits == {i \in 1..Len(models) : Val(models[i], "id") = id}
  IN IF hits = {} THEN 0 ELSE CHOOSE i \in hits : \A j \in hits : i <= j

RECURSIVE Updated(_, _)
Updated(oldModels, newModels) ==
  IF newModels = <<>> THEN <<>>
  ELSE LET newModel == Head(newModels)
           idx == FindIndex(oldModels, Val(newModel, "id"))
           rest == Updated(oldModels, Tail(newModels))
       IN IF idx = 0 THEN rest
          ELSE LET changes == getModelChanges(oldModels[idx], newModel)
               IN IF DOMAIN changes # {}
                  THEN <<[model |-> newModel, changes |-> changes]>> \o rest
                  ELSE rest

DiffSummary(added, removed, updated) ==
  [added |-> added, removed |-> removed, updated |-> updated,
   summary |-> [addedCount |-> Len(added),
                removedCount |-> Len(removed),
                updatedCount |-> Len(updated)]]

compareModelsAddedAll(oldModels, newModels) ==
  LET newIds == Ids(newModels)
      NotInNew(m) == Val(m, "id") \notin newIds
  IN DiffSummary(newModels, SeqFilter(NotInNew, oldModels),
                 Updated(oldModels, newModels))

FoldCase(id) == IF id = "s:A" THEN "s:a" ELSE id

compareModelsFoldCase(oldModels, newModels) ==
  LET oldIds == {FoldCase(i) : i \in Ids(oldModels)}
      newIds == {FoldCase(i) : i \in Ids(newModels)}
      NotInOld(m) == FoldCase(Val(m, "id")) \notin oldIds
      NotInNew(m) == FoldCase(Val(m, "id")) \notin newIds
  IN DiffSummary(SeqFilter(NotInOld, newModels),
                 SeqFilter(NotInNew, oldModels),
                 Updated(oldModels, newModels))

compareModelsRemovedAll(oldModels, newModels) ==
  LET oldIds == Ids(oldModels)
      NotInOld(m) == Val(m, "id") \notin oldIds
  IN DiffSummary(SeqFilter(NotInOld, newModels), oldModels,
                 Updated(oldModels, newModels))

compareModels(oldModels, newModels) ==
  LET oldIds == Ids(oldModels)
      newIds == Ids(newModels)
      NotInOld(m) == Val(m, "id") \notin oldIds
      NotInNew(m) == Val(m, "id") \notin newIds
      added == SeqFilter(NotInOld, newModels)
      removed == SeqFilter(NotInNew, oldModels)
      updated == Updated(oldModels, newModels)
  IN DiffSummary(added, removed, updated)

(***************************************************************************)
(* scanner.js: normalizeModels.  A 2xx response body is                     *)
(*   [kind, items]: kind "data" = object with a data array, "array" = a    *)
(*   bare array, "models" = object with a models array (and no data        *)
(*   array), "null" = the JSON value null, "scalar" = a number, string or   *)
(*   boolean, "object" (or any other kind) = an object without such an     *)
(*   array.  An item of a list is a record, or NullItem for a null entry.  *)
(***************************************************************************)
NullItem == [isNull |-> TRUE]

IsNullItem(m) == "isNull" \in DOMAIN m

\* typeof v === 'string', on the tagged values
IsString(v) == v \notin {"undef", "null", "false", "n:0", "n:1", "n:2"}

DataKeys == {"id", "name", "created", "owned_by", "permission", "root",
             "parent", "object"}
GitHubKeys == {"id", "name", "publisher", "registry", "summary", "html_url"}
OllamaKeys == {"id", "name", "model", "modified_at", "size", "digest",
               "details"}

\* { id: m.id, name: m.id, <base keys>: m.<key>, ...m }
NormSpread(baseKeys, m) ==
  [k \in baseKeys \cup DOMAIN m |->
     IF k \in DOMAIN m THEN m[k]
     ELSE IF k \in {"id", "name"} THEN Val(m, "id")
     ELSE Undefined]

\* { id: m.id || m.name, name: m.id || m.name, ...m }
NormArray(m) ==
  [k \in {"id", "name"} \cup DOMAIN m |->
     IF k \in DOMAIN m THEN m[k]
     ELSE IF Falsy(Val(m, "id")) THEN Val(m, "name") ELSE Val(m, "id")]

\* { id: m.name, name: m.name, model: m.name, modified_at: ..., ... }
NormOllama(m) ==
  [k \in OllamaKeys |->
     IF k \in {"id", "name", "model"} THEN Val(m, "name") ELSE Val(m, k)]

\* a.id.localeCompare(b.id) on the ids the model uses
\* (the empty string first, lower case before upper case, and an undefined
\* argument compared as the string "undefined")
IdOrder == <<"s:", "s:a", "s:A", "s:b", "s:c", "undef">>
Rank(id) ==
  IF \E i \in 1..Len(IdOrder) : IdOrder[i] = id
  THEN CHOOSE i \in 1..Len(IdOrder) : IdOrder[i] = id
  ELSE 0

RECURSIVE Insert(_, _)
Insert(m, sorted) ==
  IF sorted = <<>> THEN <<m>>
  ELSE IF Rank(Val(m, "id")) < Rank(Val(Head(sorted), "id"))
       THEN <<m>> \o sorted
       ELSE <<Head(sorted)>> \o Insert(m, Tail(sorted))

SortByIdNone(models) == models

\* models.sort((a, b) => a.id.localeCompare(b.id)): a stable sort by id
RECURSIVE SortById(_)
SortById(models) ==
  IF models = <<>> THEN <<>>
  ELSE Insert(models[Len(models)], SortById(SubSeq(models, 1, Len(models) - 1)))

\* lines 86-151: the list built by the branch the body matches
MappedModels(data, endpoint) ==
  LET Github(m) == NormSpread(GitHubKeys, m)
      Openai(m) == NormSpread(DataKeys, m)
  IN CASE data.kind = "data" -> SeqMap(Openai, data.items)
       [] data.kind = "array" /\ endpoint = "GitHub Models" ->
            SeqMap(Github, data.items)
       [] data.kind = "array" -> SeqMap(NormArray, data.items)
       [] data.kind = "models" -> SeqMap(NormOllama, data.items)
       [] OTHER -> <<>>

\* normalizeModels throws a TypeError whatever the engine does: data.data of
\* null, m.id of a null item, or a sort of two or more records none of which
\* has a string id (a.id.localeCompare is not a function)
NormalizeMustThrow(data, endpoint) ==
  \/ data.kind = "null"
  \/ /\ data.kind \in {"data", "array", "models"}
     /\ \E i \in 1..Len(data.items) : IsNullItem(data.items[i])
  \/ LET models == MappedModels(data, endpoint)
     IN /\ Len(models) >= 2
        /\ \A i \in 1..Len(models) : ~IsString(Val(models[i], "id"))

\* the sort throws when the comparator is called with a record without string
\* id as its first argument; which records it is called with is up to the
\* engine
NormalizeMayThrow(data, endpoint) ==
  LET models == MappedModels(data, endpoint)
  IN /\ Len(models) >= 2
     /\ \E i \in 1..Len(models) : ~IsString(Val(models[i], "id"))

normalizeModels(data, endpoint) == SortById(MappedModels(data, endpoint))

(***************************************************************************)
(* logger.js: Logger.stripTimestamps, the state document.                  *)
(***************************************************************************)
TIMESTAMP_FIELDS == {"created", "updated", "modified_at"}

stripTimestampsCreatedOnly(models) ==
  [i \in 1..Len(models) |->
     [k \in (DOMAIN models[i]) \ {"created"} |-> models[i][k]]]

stripTimestamps(models) ==
  [i \in 1..Len(models) |->
     [k \in (DOMAIN models[i]) \ TIMESTAMP_FIELDS |-> models[i][k]]]

(***************************************************************************)
(* Configuration of the modelled deployment (config.json).                 *)
(***************************************************************************)
Sources == {"s1", "s2"}
SourceOrder == <<"s1", "s2">>

\* endpoint.group; s1 names no group
EndpointGroupConfig == [s1 |-> Undefined, s2 |-> "small"]

Channels == {"default", "small"}
ChannelOrder == <<"default", "small">>

EventKinds == {"summary_with_changes", "endpoint_error", "new_model",
               "removed_model", "model_updated"}

\* The raw 2xx bodies a source may answer with.
RecA1 == [id |-> "s:a", owned_by |-> "s:x", created |-> "n:1"]
RecA2 == [id |-> "s:a", owned_by |-> "s:x", created |-> "n:2"]
RecAx == [id |-> "s:a", owned_by |-> "s:x"]
RecAy == [id |-> "s:a", owned_by |-> "s:y"]
RecB == [id |-> "s:b", owned_by |-> "s:x"]

RawResponses ==
  { [kind |-> "data", items |-> <<RecA1>>],
    [kind |-> "data", items |-> <<RecA2>>],
    [kind |-> "data", items |-> <<RecAy>>],
    [kind |-> "data", items |-> <<RecB, RecAx>>] }

\* error text of a genuine request failure (non-2xx status, thrown error)
FailErrors == {"HTTP 500: Internal Server Error"}

MissingKeyError == "API key not found in env variable"

VARIABLES
  run,            \* number of runs started
  pc,             \* position of main: idle, scan, save, log, notify, exit, exited
  cred,           \* per source: process.env[endpoint.apiKeyEnv] is set
  retryAttempts,  \* scanEndpoints: retryAttempts (from config.scan)
  retryDelay,     \* scanEndpoints: retryDelay (from config.scan)
  stateFile,      \* logs/state.json
  previousState,  \* main: previousState
  spc,            \* per source: position in the scanEndpoints callback
  attempt,        \* per source: the loop variable attempt
  result,         \* per source: the outcome scanEndpoints returns
  loopResult,     \* per source: outcome of the latest attempt made in the loop
  fetches,        \* per source: fetchModels calls made in this scan
  delays,         \* per source: retry delays waited in this scan
  allChanges,     \* main: allChanges
  stateWritten,   \* the state write of this run succeeded
  scanLog,        \* the scan log entry written by this run
  discord,        \* config.discord and the webhook environment of this run
  sent,           \* sendDiscordWebhook calls of this run, in order
  exitCode,       \* process exit status of the latest run, -1 while running
  prior,          \* per source, about the previous run: whether the source
                  \* failed in it and the snapshot P stored before it;
                  \* whether it succeeded and was saved, and the records
                  \* fetched in it
  dOld,           \* compareModels: the argument oldModels
  dNew,           \* compareModels: the argument newModels
  dOut,           \* compareModels: the value returned
  dpc,            \* compareModels: "off", "ready" or "done"
  eKind,          \* embed builder called: new_model, removed_model,
                  \* model_updated, or "none"
  eEndpoint,      \* create...Embed: the argument endpointName
  eItems,         \* create...Embed: the argument models / updates
  ePayload,       \* create...Embed: the payload returned
  epc,            \* create...Embed: "off", "ready" or "done"
  nEndpoints,     \* processNotifications: the argument endpoints
  nResults,       \* processNotifications: the argument results
  nChanges,       \* processNotifications: the argument allChanges
  nConfig,        \* processNotifications: the argument config and the
                  \* webhook environment
  nSent,          \* processNotifications: its sendDiscordWebhook calls
  npc,            \* processNotifications: "off", "ready" or "done"
  fEndpoint,      \* fetchModels: endpoint.name
  fData,          \* fetchModels: response.data of a 2xx response
  fOut,           \* fetchModels: the value returned
  fpc,            \* fetchModels: "off", "ready" or "done"
  zResults,       \* main, line 458: the results handed to sanitizeObject
  zChanges,       \* main, line 459: the changes handed to sanitizeObject
  zLog,           \* logScan: the log entry written
  zpc,            \* main, lines 457-460: "off", "ready" or "done"
  responses,      \* per source: whether the endpoint answers every request
                  \* of this process the same way, and the outcome if it does
  wUrl,           \* sendDiscordWebhook: the argument webhookUrl is set
  wPayload,       \* sendDiscordWebhook: the argument payload
  wAll,           \* sendDiscordWebhook: allEmbeds
  wNext,          \* sendDiscordWebhook: the loop variable i of the posting loop
  wPosts,         \* sendDiscordWebhook: the chunk payloads posted, in order
  wReturn,        \* sendDiscordWebhook: the value returned, "none" before
  wpc,            \* sendDiscordWebhook: "off", "ready", "posting" or "done"
  xRun,           \* posts watcher: number of runs started
  xpc,            \* posts watcher main: off, idle, users, save, exited
  xIdx,           \* posts watcher main: position of the loop over users
  xFile,          \* posts watcher: the state file, seenIds per user
  xMem,           \* posts watcher main: the object state
  xNotes,         \* posts watcher: the notifications sent by this run
  xReported       \* posts watcher, per user: the post ids notified once and
                  \* those notified again in a later run

vars == <<run, pc, cred, retryAttempts, retryDelay, stateFile, previousState,
          spc, attempt, result, loopResult, fetches, delays, allChanges,
          stateWritten, scanLog, discord, sent, exitCode, prior,
          dOld, dNew, dOut, dpc, eKind, eEndpoint, eItems, ePayload, epc,
          nEndpoints, nResults, nChanges, nConfig, nSent, npc,
          fEndpoint, fData, fOut, fpc, zResults, zChanges, zLog, zpc,
          responses, wUrl, wPayload, wAll, wNext, wPosts, wReturn, wpc,
          xRun, xpc, xIdx, xFile, xMem, xNotes, xReported>>

diffVars == <<dOld, dNew, dOut, dpc>>

embedVars == <<eKind, eEndpoint, eItems, ePayload, epc>>

\* the variables of the functions checked on their own
notifyVars == <<nEndpoints, nResults, nChanges, nConfig, nSent, npc>>

normVars == <<fEndpoint, fData, fOut, fpc>>

logVars == <<zResults, zChanges, zLog, zpc>>

\* the endpoints' behaviour, which no step of the program changes
envVars == <<responses>>

sendVars == <<wUrl, wPayload, wAll, wNext, wPosts, wReturn, wpc>>

postVars == <<xRun, xpc, xIdx, xFile, xMem, xNotes, xReported>>

pureVars == <<diffVars, embedVars, notifyVars, normVars, logVars, sendVars,
              postVars, envVars>>

mainVars == <<run, pc, cred, retryAttempts, retryDelay, stateFile,
              previousState, spc, attempt, result, loopResult, fetches,
              delays, allChanges, stateWritten, scanLog, discord, sent,
              exitCode, prior, envVars>>

(***************************************************************************)
(* scanner.js: fetchModels.                                                *)
(***************************************************************************)
NoResult == [endpoint |-> "", success |-> FALSE, configured |-> TRUE,
             error |-> Undefined, models |-> <<>>]

\* lines 16-23: no API key
Unconfigured(s) == [endpoint |-> s, success |-> FALSE, configured |-> FALSE,
                    error |-> MissingKeyError, models |-> <<>>]

\* lines 61-76: non-2xx status or thrown request error
Failure(s, e) == [endpoint |-> s, success |-> FALSE, configured |-> TRUE,
                  error |-> e, models |-> <<>>]

\* lines 52-60
Success(s, raw) == [endpoint |-> s, success |-> TRUE, configured |-> TRUE,
                    error |-> Undefined, models |-> normalizeModels(raw, s)]

\* err.message of the TypeError normalizeModels throws
NormalizeError == "TypeError"

\* lines 52-60 and 69-76: the outcomes of a 2xx response with body raw
Respond2xx(s, raw) ==
  (IF NormalizeMustThrow(raw, s) THEN {} ELSE {Success(s, raw)})
  \cup (IF NormalizeMustThrow(raw, s) \/ NormalizeMayThrow(raw, s)
        THEN {Failure(s, NormalizeError)} ELSE {})

\* lines 45-76: every outcome a request to source s can have
AnyResponse(s) ==
  UNION {Respond2xx(s, raw) : raw \in RawResponses}
  \cup {Failure(s, e) : e \in FailErrors}

\* an endpoint that may answer each request differently
Unfixed == [fixed |-> FALSE, outcome |-> NoResult]

fetchModels(s) ==
  IF ~cred[s] THEN {Unconfigured(s)}
  ELSE IF responses[s].fixed THEN {responses[s].outcome}
  ELSE AnyResponse(s)

(***************************************************************************)
(* logger.js: Logger.getPreviousState and Logger.saveState.                *)
(***************************************************************************)
NoEntry == [present |-> FALSE, success |-> FALSE, models |-> <<>>,
            error |-> Undefined]

NoState == [exists |-> FALSE, endpoints |-> [s \in Sources |-> NoEntry]]

\* a state file that cannot be read, or whose text is not JSON; endpoints is
\* what an earlier run had written to it
Damaged(file) == "damage" \in DOMAIN file

getPreviousStateReadsDamaged(file) ==
  [exists |-> file.exists, endpoints |-> file.endpoints]

\* the parsed state document, or null (NoState) when there is no state file
\* or reading or parsing it throws
getPreviousState(file) == IF Damaged(file) THEN NoState ELSE file

\* main, lines 422-427
OldModels(prev, s) ==
  IF prev.exists /\ prev.endpoints[s].present
  THEN prev.endpoints[s].models
  ELSE <<>>

\* the document written for `results`; `file` is the document it replaces
saveState(file, results) ==
  [exists |-> TRUE,
   endpoints |-> [s \in Sources |->
      [present |-> TRUE,
       success |-> results[s].success,
       models |-> SeqMap(JSONroundtrip, stripTimestamps(results[s].models)),
       error |-> results[s].error]]]

\* logScan, lines 101-105
logScan(results) ==
  [successful |-> Cardinality({s \in Sources : results[s].success}),
   failed |-> Cardinality({s \in Sources : ~results[s].success})]

NoLog == [successful |-> 0, failed |-> 0]

(***************************************************************************)
(* index.js: main, lines 418-452 (the changes object) and 476-487 (exit).  *)
(***************************************************************************)
FailedChanges(r) == [error |-> r.error, added |-> <<>>, removed |-> <<>>,
                     updated |-> <<>>]

NoChanges == [s \in Sources |-> FailedChanges(NoResult)]

buildChangesAbortOnFailure(prev, results) ==
  [s \in Sources |->
     IF \A q \in Sources : results[q].success
     THEN compareModels(OldModels(prev, s), results[s].models)
     ELSE FailedChanges(results[s])]

buildChangesSilentFirstRun(prev, results) ==
  [s \in Sources |->
     IF results[s].success
     THEN IF prev.exists /\ prev.endpoints[s].present
          THEN compareModels(OldModels(prev, s), results[s].models)
          ELSE compareModels(results[s].models, results[s].models)
     ELSE FailedChanges(results[s])]

buildChanges(prev, results) ==
  [s \in Sources |->
     IF results[s].success
     THEN compareModels(OldModels(prev, s), results[s].models)
     ELSE FailedChanges(results[s])]

exitStatusAnyFailed(results) ==
  IF \E s \in Sources : ~results[s].success THEN 1 ELSE 0

\* const allFailed = results.every(r => !r.success)
exitStatus(results) ==
  IF \A s \in Sources : ~results[s].success THEN 1 ELSE 0

(***************************************************************************)
(* webhook.js: processNotifications.  A message records one                *)
(* sendDiscordWebhook call: its channel, event kind, the source it names   *)
(* ("" for a summary), the number of items, and whether the POST succeeded.*)
(***************************************************************************)
\* config.endpoints of the modelled deployment, in the order of the file
Endpoints ==
  [i \in 1..Len(SourceOrder) |->
     [name |-> SourceOrder[i], group |-> EndpointGroupConfig[SourceOrder[i]]]]

EndpointNames(endpoints) == [i \in 1..Len(endpoints) |-> endpoints[i].name]

GroupOf(endpoints, s) ==
  LET i == CHOOSE j \in 1..Len(endpoints) : endpoints[j].name = s
  IN endpoints[i].group

EndpointGroupNoDefault(endpoints, s) == GroupOf(endpoints, s)

\* endpointGroups[ep.name] = ep.group || 'default'
EndpointGroup(endpoints, s) ==
  IF Falsy(GroupOf(endpoints, s)) THEN "default" ELSE GroupOf(endpoints, s)

\* the sources of groupResults[g] and groupChanges[g], in the order of results
GroupMembers(endpoints, g) ==
  SeqFilter(LAMBDA s : EndpointGroup(endpoints, s) = g,
            EndpointNames(endpoints))

RECURSIVE SumOver(_, _)
SumOver(F(_), seq) ==
  IF seq = <<>> THEN 0 ELSE F(Head(seq)) + SumOver(F, Tail(seq))

RECURSIVE Collect(_, _)
Collect(F(_), seq) ==
  IF seq = <<>> THEN <<>> ELSE F(Head(seq)) \o Collect(F, Tail(seq))

\* one sendDiscordWebhook call: `names` are the sources the payload names
Msg(cfg, ch, kind, s, names, n) ==
  <<[channel |-> ch, kind |-> kind, source |-> s, names |-> names,
     count |-> n, ok |-> cfg.sinkUp[ch]]>>

\* addedCount + removedCount + updatedCount of one entry of allChanges
ChangeCount(changes, s) ==
  IF "summary" \in DOMAIN changes[s]
  THEN changes[s].summary.addedCount
       + changes[s].summary.removedCount
       + changes[s].summary.updatedCount
  ELSE 0

SummaryMessagesAllSources(cfg, endpoints, ch, changes) ==
  LET Count(s) == ChangeCount(changes, s)
      total == SumOver(Count, EndpointNames(endpoints))
  IN IF total > 0
     THEN Msg(cfg, ch, "summary_with_changes", "",
              GroupMembers(endpoints, ch), total)
     ELSE <<>>

\* lines 1031-1062
SummaryMessages(cfg, endpoints, ch, changes) ==
  LET members == GroupMembers(endpoints, ch)
      Count(s) == ChangeCount(changes, s)
      total == SumOver(Count, members)
  IN IF total > 0
     THEN Msg(cfg, ch, "summary_with_changes", "", members, total)
     ELSE <<>>

ErrorMessagesNoSkip(cfg, endpoints, ch, results) ==
  LET One(s) == IF ~results[s].success /\ ~Falsy(results[s].error)
                THEN Msg(cfg, ch, "endpoint_error", s, <<s>>, 1)
                ELSE <<>>
  IN Collect(One, GroupMembers(endpoints, ch))

\* the skip taken for the sources that have their key instead
ErrorMessagesSkipConfigured(cfg, endpoints, ch, results) ==
  LET One(s) ==
        IF ~results[s].success /\ ~Falsy(results[s].error)
           /\ results[s].configured # FALSE
        THEN <<>>
        ELSE IF ~results[s].success /\ ~Falsy(results[s].error)
             THEN Msg(cfg, ch, "endpoint_error", s, <<s>>, 1)
             ELSE <<>>
  IN Collect(One, GroupMembers(endpoints, ch))

\* lines 1064-1074
ErrorMessages(cfg, endpoints, ch, results) ==
  LET One(s) ==
        IF ~results[s].success /\ ~Falsy(results[s].error)
           /\ results[s].configured = FALSE
        THEN <<>>
        ELSE IF ~results[s].success /\ ~Falsy(results[s].error)
             THEN Msg(cfg, ch, "endpoint_error", s, <<s>>, 1)
             ELSE <<>>
  IN Collect(One, GroupMembers(endpoints, ch))

DeltaMessagesMerged(cfg, endpoints, ch, kind, field, changes) ==
  LET affected == SeqFilter(LAMBDA s : Len(changes[s][field]) > 0,
                            GroupMembers(endpoints, ch))
      Count(s) == Len(changes[s][field])
  IN IF affected = <<>> THEN <<>>
     ELSE Msg(cfg, ch, kind, Head(affected), affected,
              SumOver(Count, affected))

\* every channel looping over the changes of all sources
DeltaMessagesEveryChannel(cfg, endpoints, ch, kind, field, changes) ==
  LET One(s) == IF Len(changes[s][field]) > 0
                THEN Msg(cfg, ch, kind, s, <<s>>, Len(changes[s][field]))
                ELSE <<>>
  IN Collect(One, EndpointNames(endpoints))

\* lines 1076-1101: one loop per kind over the channel's changes
DeltaMessages(cfg, endpoints, ch, kind, field, changes) ==
  LET One(s) == IF Len(changes[s][field]) > 0
                THEN Msg(cfg, ch, kind, s, <<s>>, Len(changes[s][field]))
                ELSE <<>>
  IN Collect(One, GroupMembers(endpoints, ch))

ChannelMessagesSummaryLast(cfg, endpoints, ch, results, changes) ==
  LET notifyOn == cfg.webhooks[ch].notifyOn
      When(kind, msgs) == IF kind \in notifyOn THEN msgs ELSE <<>>
  IN IF ~cfg.webhooks[ch].url THEN <<>>
     ELSE IF GroupMembers(endpoints, ch) = <<>> THEN <<>>
     ELSE When("endpoint_error",
               ErrorMessages(cfg, endpoints, ch, results))
          \o When("new_model",
                  DeltaMessages(cfg, endpoints, ch, "new_model", "added",
                                changes))
          \o When("removed_model",
                  DeltaMessages(cfg, endpoints, ch, "removed_model",
                                "removed", changes))
          \o When("model_updated",
                  DeltaMessages(cfg, endpoints, ch, "model_updated",
                                "updated", changes))
          \o When("summary_with_changes",
                  SummaryMessages(cfg, endpoints, ch, changes))

\* lines 1013-1102: the body of the loop over config.webhooks
ChannelMessages(cfg, endpoints, ch, results, changes) ==
  LET notifyOn == cfg.webhooks[ch].notifyOn
      When(kind, msgs) == IF kind \in notifyOn THEN msgs ELSE <<>>
  IN IF ~cfg.webhooks[ch].url THEN <<>>
     ELSE IF GroupMembers(endpoints, ch) = <<>> THEN <<>>
     ELSE When("summary_with_changes",
               SummaryMessages(cfg, endpoints, ch, changes))
          \o When("endpoint_error",
                  ErrorMessages(cfg, endpoints, ch, results))
          \o When("new_model",
                  DeltaMessages(cfg, endpoints, ch, "new_model", "added",
                                changes))
          \o When("removed_model",
                  DeltaMessages(cfg, endpoints, ch, "removed_model",
                                "removed", changes))
          \o When("model_updated",
                  DeltaMessages(cfg, endpoints, ch, "model_updated",
                                "updated", changes))

\* the calls up to and including the first one whose POST fails
RECURSIVE UpToFirstFailure(_)
UpToFirstFailure(msgs) ==
  IF msgs = <<>> THEN <<>>
  ELSE IF ~Head(msgs).ok THEN <<Head(msgs)>>
       ELSE <<Head(msgs)>> \o UpToFirstFailure(Tail(msgs))

processNotificationsAbortOnFailure(cfg, results, changes, endpoints) ==
  IF ~cfg.enabled THEN <<>>
  ELSE LET One(ch) == ChannelMessages(cfg, endpoints, ch, results, changes)
       IN UpToFirstFailure(Collect(One, ChannelOrder))

processNotifications(cfg, results, changes, endpoints) ==
  IF ~cfg.enabled THEN <<>>
  ELSE LET One(ch) == ChannelMessages(cfg, endpoints, ch, results, changes)
       IN Collect(One, ChannelOrder)

\* config.discord together with the webhook environment: per channel whether
\* its webhook URL is set and which event kinds it enables; sinkUp tells
\* whether the channel's sink accepts POSTs.
ChannelOptions ==
  { [url |-> FALSE, notifyOn |-> EventKinds],
    [url |-> TRUE, notifyOn |-> EventKinds],
    [url |-> TRUE, notifyOn |-> {"new_model", "endpoint_error"}] }

AllUp == [ch \in Channels |-> TRUE]

DefaultDown == [ch \in Channels |-> ch # "default"]

DisabledConfig ==
  [enabled |-> FALSE,
   webhooks |-> [ch \in Channels |-> [url |-> FALSE, notifyOn |-> EventKinds]],
   sinkUp |-> AllUp]

DiscordConfigs ==
  {DisabledConfig}
  \cup { [enabled |-> TRUE, webhooks |-> w, sinkUp |-> AllUp] :
           w \in [Channels -> ChannelOptions] }
  \cup { [enabled |-> TRUE,
          webhooks |-> [ch \in Channels |->
                          [url |-> TRUE, notifyOn |-> EventKinds]],
          sinkUp |-> DefaultDown] }

\* The configurations the runs of main are followed under: every channel
\* option occurs on every channel, and one configuration has a sink down.
\* processNotifications is followed under all of DiscordConfigs on its own.
RunConfigs ==
  { cfg \in DiscordConfigs :
      \/ ~cfg.enabled
      \/ /\ cfg.webhooks["default"].url # cfg.webhooks["small"].url
         /\ \A ch \in Channels :
              cfg.webhooks[ch].url => cfg.webhooks[ch].notifyOn # EventKinds
      \/ /\ cfg.webhooks["default"].url
         /\ cfg.webhooks["default"] = cfg.webhooks["small"]
         /\ cfg.webhooks["default"].notifyOn = EventKinds }

(***************************************************************************)
(* webhook.js: createNewModelsEmbed, createRemovedModelsEmbed and          *)
(* createUpdatedModelsEmbed.  A payload is its list of embeds; an embed    *)
(* records its title, the endpoint and the count its description names,    *)
(* the file its description links to ("none" without a link) and its       *)
(* fields.  A field value is the list of lines between the code fences.    *)
(***************************************************************************)
maxPerField == 10
maxTotal == 20

NoPayload == [embeds |-> <<>>]

Min(a, b) == IF a < b THEN a ELSE b

\* the name of the field that starts at index i (from 0) of n items
FieldLabel(base, i, n) ==
  IF n > maxPerField
  THEN [text |-> base, ranged |-> TRUE, from |-> i + 1,
        to |-> Min(i + maxPerField, n)]
  ELSE [text |-> base, ranged |-> FALSE, from |-> 0, to |-> 0]

\* for (let i = 0; i < lines.length; i += maxPerField) fields.push(...)
RECURSIVE EmbedFields(_, _, _)
EmbedFields(base, lines, i) ==
  IF i >= Len(lines) THEN <<>>
  ELSE <<[name |-> FieldLabel(base, i, Len(lines)),
          value |-> SubSeq(lines, i + 1, Min(i + maxPerField, Len(lines)))]>>
       \o EmbedFields(base, lines, i + maxPerField)

CountOnlyEmbed(title, endpointName, n, link) ==
  [embeds |-> <<[title |-> title, endpoint |-> endpointName, count |-> n,
                 link |-> link, fields |-> <<>>]>>]

ListEmbed(title, endpointName, n, link, fields) ==
  [embeds |-> <<[title |-> title, endpoint |-> endpointName, count |-> n,
                 link |-> link, fields |-> fields]>>]

ModelLine(m) == Val(m, "id")

\* `${u.model.id}: ${Object.keys(u.changes).join(', ')}`
UpdateLine(u) == [id |-> Val(u.model, "id"), keys |-> DOMAIN u.changes]

createNewModelsEmbedNoThreshold(endpointName, models) ==
  ListEmbed("New Models Detected", endpointName, Len(models), "none",
            EmbedFields("New Models", SeqMap(ModelLine, models), 0))

createNewModelsEmbed(endpointName, models) ==
  IF Len(models) > maxTotal
  THEN CountOnlyEmbed("New Models Detected", endpointName, Len(models),
                      "logs/state.json")
  ELSE ListEmbed("New Models Detected", endpointName, Len(models), "none",
                 EmbedFields("New Models", SeqMap(ModelLine, models), 0))

createRemovedModelsEmbedFirstFieldOnly(endpointName, models) ==
  IF Len(models) > maxTotal
  THEN CountOnlyEmbed("Models Removed", endpointName, Len(models),
                      "logs/state.json")
  ELSE ListEmbed("Models Removed", endpointName, Len(models), "none",
                 EmbedFields("Removed Models",
                             SubSeq(SeqMap(ModelLine, models), 1,
                                    Min(maxPerField, Len(models))), 0))

createRemovedModelsEmbed(endpointName, models) ==
  IF Len(models) > maxTotal
  THEN CountOnlyEmbed("Models Removed", endpointName, Len(models),
                      "logs/state.json")
  ELSE ListEmbed("Models Removed", endpointName, Len(models), "none",
                 EmbedFields("Removed Models", SeqMap(ModelLine, models), 0))

createUpdatedModelsEmbed(endpointName, updates) ==
  IF Len(updates) > maxTotal
  THEN CountOnlyEmbed("Models Updated", endpointName, Len(updates),
                      "commits/master/logs/state.json")
  ELSE ListEmbed("Models Updated", endpointName, Len(updates),
                 "commits/master/logs/state.json",
                 EmbedFields("Updated Models", SeqMap(UpdateLine, updates), 0))

(***************************************************************************)
(* The runs.  Each run is one execution of main; the state document is     *)
(* what one run leaves to the next.                                        *)
(***************************************************************************)
RetryDelays == {0, 1000}

NoPrior == [failed |-> FALSE, P |-> <<>>, saved |-> FALSE, fetched |-> <<>>]

NoDiff == compareModels(<<>>, <<>>)

MainInit ==
  /\ run = 0
  /\ pc = "idle"
  /\ cred = [s \in Sources |-> FALSE]
  /\ retryAttempts = 0
  /\ retryDelay = 0
  /\ stateFile = NoState
  /\ previousState = NoState
  /\ spc = [s \in Sources |-> "returned"]
  /\ attempt = [s \in Sources |-> 0]
  /\ result = [s \in Sources |-> NoResult]
  /\ loopResult = [s \in Sources |-> NoResult]
  /\ fetches = [s \in Sources |-> 0]
  /\ delays = [s \in Sources |-> 0]
  /\ allChanges = NoChanges
  /\ stateWritten = FALSE
  /\ scanLog = NoLog
  /\ discord = DisabledConfig
  /\ sent = <<>>
  /\ exitCode = -1
  /\ prior = [s \in Sources |-> NoPrior]
  /\ responses = [s \in Sources |-> Unfixed]

DiffOff ==
  /\ dOld = <<>>
  /\ dNew = <<>>
  /\ dOut = NoDiff
  /\ dpc = "off"

EmbedOff ==
  /\ eKind = "none"
  /\ eEndpoint = ""
  /\ eItems = <<>>
  /\ ePayload = NoPayload
  /\ epc = "off"

NormOff ==
  /\ fEndpoint = ""
  /\ fData = [kind |-> "object", items |-> <<>>]
  /\ fOut = NoResult
  /\ fpc = "off"

SendOff ==
  /\ wUrl = FALSE
  /\ wPayload = NoPayload
  /\ wAll = <<>>
  /\ wNext = 0
  /\ wPosts = <<>>
  /\ wReturn = "none"
  /\ wpc = "off"

PostsOff ==
  /\ xRun = 0
  /\ xpc = "off"
  /\ xIdx = 0
  /\ xFile = <<>>
  /\ xMem = <<>>
  /\ xNotes = <<>>
  /\ xReported = <<>>

LogOff ==
  /\ zResults = <<>>
  /\ zChanges = <<>>
  /\ zLog = <<>>
  /\ zpc = "off"

NotifyOff ==
  /\ nEndpoints = <<>>
  /\ nResults = <<>>
  /\ nChanges = <<>>
  /\ nConfig = DisabledConfig
  /\ nSent = <<>>
  /\ npc = "off"

Init ==
  /\ MainInit
  /\ DiffOff
  /\ EmbedOff
  /\ NotifyOff
  /\ NormOff
  /\ LogOff
  /\ SendOff
  /\ PostsOff

\* main, lines 394-410: a new process starts, reads the configuration and the
\* previous state and calls scanEndpoints.
StartRun ==
  /\ pc \in {"idle", "exited"}
  /\ run < MaxRuns
  /\ run' = run + 1
  /\ pc' = "scan"
  /\ cred' \in [Sources -> BOOLEAN]
  /\ retryAttempts' \in 0..MaxRetry
  /\ retryDelay' \in RetryDelays
  /\ previousState' = getPreviousState(stateFile)
  /\ spc' = [s \in Sources |-> "loop"]
  /\ attempt' = [s \in Sources |-> 0]
  /\ result' = [s \in Sources |-> NoResult]
  /\ loopResult' = [s \in Sources |-> NoResult]
  /\ fetches' = [s \in Sources |-> 0]
  /\ delays' = [s \in Sources |-> 0]
  /\ allChanges' = NoChanges
  /\ stateWritten' = FALSE
  /\ scanLog' = NoLog
  /\ discord' = DisabledConfig
  /\ sent' = <<>>
  /\ exitCode' = -1
  /\ prior' = [s \in Sources |->
       IF pc = "exited" /\ ~result[s].success
       THEN [NoPrior EXCEPT !.failed = TRUE,
                            !.P = OldModels(previousState, s)]
       ELSE IF pc = "exited" /\ result[s].success /\ stateWritten
       THEN [NoPrior EXCEPT !.saved = TRUE, !.fetched = result[s].models]
       ELSE NoPrior]
  /\ UNCHANGED <<stateFile, pureVars>>

\* the sources scanned one after the other, in configuration order
LoopAttemptInTurn(s) ==
  /\ pc = "scan"
  /\ spc[s] = "loop"
  /\ \A i \in 1..Len(SourceOrder) :
       (\E j \in 1..Len(SourceOrder) : i < j /\ SourceOrder[j] = s)
         => spc[SourceOrder[i]] = "done"
  /\ \E r \in fetchModels(s) :
       /\ fetches' = [fetches EXCEPT ![s] = @ + 1]
       /\ loopResult' = [loopResult EXCEPT ![s] = r]
       /\ IF r.success
          THEN /\ result' = [result EXCEPT ![s] = r]
               /\ spc' = [spc EXCEPT ![s] = "done"]
               /\ UNCHANGED attempt
          ELSE /\ UNCHANGED result
               /\ IF attempt[s] < retryAttempts /\ retryDelay > 0
                  THEN /\ spc' = [spc EXCEPT ![s] = "delay"]
                       /\ UNCHANGED attempt
                  ELSE /\ attempt' = [attempt EXCEPT ![s] = @ + 1]
                       /\ spc' = [spc EXCEPT ![s] =
                            IF attempt[s] + 1 <= retryAttempts
                            THEN "loop" ELSE "last"]
  /\ UNCHANGED <<run, pc, cred, retryAttempts, retryDelay, stateFile,
                 previousState, delays, allChanges, stateWritten, scanLog,
                 discord, sent, exitCode, prior, pureVars>>

\* a successful outcome stored at the first place of the result array that is
\* still free, in order of arrival
LoopAttemptArrivalOrder(s) ==
  /\ pc = "scan"
  /\ spc[s] = "loop"
  /\ \E r \in fetchModels(s) :
       /\ fetches' = [fetches EXCEPT ![s] = @ + 1]
       /\ loopResult' = [loopResult EXCEPT ![s] = r]
       /\ IF r.success
          THEN /\ \E i \in 1..Len(SourceOrder) :
                    /\ result[SourceOrder[i]] = NoResult
                    /\ \A j \in 1..(i - 1) :
                         result[SourceOrder[j]] # NoResult
                    /\ result' = [result EXCEPT ![SourceOrder[i]] = r]
               /\ spc' = [spc EXCEPT ![s] = "done"]
               /\ UNCHANGED attempt
          ELSE /\ UNCHANGED result
               /\ IF attempt[s] < retryAttempts /\ retryDelay > 0
                  THEN /\ spc' = [spc EXCEPT ![s] = "delay"]
                       /\ UNCHANGED attempt
                  ELSE /\ attempt' = [attempt EXCEPT ![s] = @ + 1]
                       /\ spc' = [spc EXCEPT ![s] =
                            IF attempt[s] + 1 <= retryAttempts
                            THEN "loop" ELSE "last"]
  /\ UNCHANGED <<run, pc, cred, retryAttempts, retryDelay, stateFile,
                 previousState, delays, allChanges, stateWritten, scanLog,
                 discord, sent, exitCode, prior, pureVars>>

\* scanEndpoints, lines 171-182: one pass of the retry loop for source s
LoopAttempt(s) ==
  /\ pc = "scan"
  /\ spc[s] = "loop"
  /\ \E r \in fetchModels(s) :
       /\ fetches' = [fetches EXCEPT ![s] = @ + 1]
       /\ loopResult' = [loopResult EXCEPT ![s] = r]
       /\ IF r.success
          THEN /\ result' = [result EXCEPT ![s] = r]
               /\ spc' = [spc EXCEPT ![s] = "done"]
               /\ UNCHANGED attempt
          ELSE /\ UNCHANGED result
               /\ IF attempt[s] < retryAttempts /\ retryDelay > 0
                  THEN /\ spc' = [spc EXCEPT ![s] = "delay"]
                       /\ UNCHANGED attempt
                  ELSE /\ attempt' = [attempt EXCEPT ![s] = @ + 1]
                       /\ spc' = [spc EXCEPT ![s] =
                            IF attempt[s] + 1 <= retryAttempts
                            THEN "loop" ELSE "last"]
  /\ UNCHANGED <<run, pc, cred, retryAttempts, retryDelay, stateFile,
                 previousState, delays, allChanges, stateWritten, scanLog,
                 discord, sent, exitCode, prior, pureVars>>

\* scanEndpoints, line 180: the retry delay of source s elapses
RetryDelay(s) ==
  /\ pc = "scan"
  /\ spc[s] = "delay"
  /\ delays' = [delays EXCEPT ![s] = @ + 1]
  /\ attempt' = [attempt EXCEPT ![s] = @ + 1]
  /\ spc' = [spc EXCEPT ![s] = "loop"]
  /\ UNCHANGED <<run, pc, cred, retryAttempts, retryDelay, stateFile,
                 previousState, result, loopResult, fetches, allChanges,
                 stateWritten, scanLog, discord, sent, exitCode, prior, pureVars>>

\* scanEndpoints, line 185: the fetch after the loop, whose result is returned
LastFetch(s) ==
  /\ pc = "scan"
  /\ spc[s] = "last"
  /\ \E r \in fetchModels(s) :
       /\ fetches' = [fetches EXCEPT ![s] = @ + 1]
       /\ result' = [result EXCEPT ![s] = r]
  /\ spc' = [spc EXCEPT ![s] = "done"]
  /\ UNCHANGED <<run, pc, cred, retryAttempts, retryDelay, stateFile,
                 previousState, attempt, loopResult, delays, allChanges,
                 stateWritten, scanLog, discord, sent, exitCode, prior, pureVars>>

\* main, lines 410-452: Promise.all resolves, scanEndpoints returns (its
\* per-source locals and the scan's counters end with it) and the changes
\* object is built
BuildChanges ==
  /\ pc = "scan"
  /\ \A s \in Sources : spc[s] = "done"
  /\ allChanges' = buildChanges(previousState, result)
  /\ pc' = "save"
  /\ spc' = [s \in Sources |-> "returned"]
  /\ attempt' = [s \in Sources |-> 0]
  /\ loopResult' = [s \in Sources |-> NoResult]
  /\ fetches' = [s \in Sources |-> 0]
  /\ delays' = [s \in Sources |-> 0]
  /\ retryAttempts' = 0
  /\ retryDelay' = 0
  /\ UNCHANGED <<run, cred, stateFile, previousState, result, stateWritten,
                 scanLog, discord, sent, exitCode, prior, pureVars>>

SaveStateAborts ==
  /\ pc = "save"
  /\ \E ok \in BOOLEAN :
       /\ stateWritten' = ok
       /\ stateFile' = IF ok THEN saveState(stateFile, result) ELSE stateFile
       /\ pc' = IF ok THEN "log" ELSE "exited"
       /\ exitCode' = IF ok THEN exitCode ELSE 1
  /\ UNCHANGED <<run, cred, retryAttempts, retryDelay, previousState, spc,
                 attempt, result, loopResult, fetches, delays, allChanges,
                 scanLog, discord, sent, prior, pureVars>>

\* main, line 455: logger.saveState(results); a failed write is logged and
\* leaves the document as it was
SaveState ==
  /\ pc = "save"
  /\ \E ok \in BOOLEAN :
       /\ stateWritten' = ok
       /\ stateFile' = IF ok THEN saveState(stateFile, result) ELSE stateFile
  /\ pc' = "log"
  /\ UNCHANGED <<run, cred, retryAttempts, retryDelay, previousState, spc,
                 attempt, result, loopResult, fetches, delays, allChanges,
                 scanLog, discord, sent, exitCode, prior, pureVars>>

\* main, lines 457-460: logger.logScan; a failed write is logged and leaves no
\* entry
LogScan ==
  /\ pc = "log"
  /\ \E ok \in BOOLEAN :
       scanLog' = IF ok THEN logScan(result) ELSE NoLog
  /\ pc' = "notify"
  /\ UNCHANGED <<run, cred, retryAttempts, retryDelay, stateFile,
                 previousState, spc, attempt, result, loopResult, fetches,
                 delays, allChanges, stateWritten, discord, sent, exitCode,
                 prior, pureVars>>

\* main, line 465: processNotifications under this run's discord configuration
Notify ==
  /\ pc = "notify"
  /\ \E cfg \in RunConfigs :
       /\ discord' = cfg
       /\ sent' = processNotifications(cfg, result, allChanges, Endpoints)
  /\ pc' = "exit"
  /\ UNCHANGED <<run, cred, retryAttempts, retryDelay, stateFile,
                 previousState, spc, attempt, result, loopResult, fetches,
                 delays, allChanges, stateWritten, scanLog, exitCode,
                 prior, pureVars>>

\* main, lines 476-487; the log entry of the process is followed no further
Exit ==
  /\ pc = "exit"
  /\ exitCode' = exitStatus(result)
  /\ pc' = "exited"
  /\ scanLog' = NoLog
  /\ UNCHANGED <<run, cred, retryAttempts, retryDelay, stateFile,
                 previousState, spc, attempt, result, loopResult, fetches,
                 delays, allChanges, stateWritten, discord, sent,
                 prior, pureVars>>

Next ==
  \/ StartRun
  \/ \E s \in Sources : LoopAttempt(s)
  \/ \E s \in Sources : RetryDelay(s)
  \/ \E s \in Sources : LastFetch(s)
  \/ BuildChanges
  \/ SaveState
  \/ LogScan
  \/ Notify
  \/ Exit

Spec == Init /\ [][Next]_vars

(***************************************************************************)
(* One scan on its own: a process that has just called scanEndpoints, in   *)
(* front of endpoints that answer every request of this run the same way.  *)
(***************************************************************************)
\* state documents a run may start from: none, or one saved by an earlier run
SavedStates ==
  {saveState(NoState, [s \in Sources |-> Success(s, raw)]) :
     raw \in {[kind |-> "data", items |-> <<RecA1>>],
              [kind |-> "data", items |-> <<RecB, RecAx>>]}}

DamagedStates ==
  {[exists |-> TRUE, damage |-> d, endpoints |-> f.endpoints] :
     d \in {"unreadable", "unparseable"},
     f \in {saveState(NoState, [s \in Sources |->
                Success(s, [kind |-> "data", items |-> <<RecB, RecAx>>])])}}

ScanStates == {NoState} \cup SavedStates \cup DamagedStates

\* each source answers every request with one and the same outcome
FixedResponses ==
  {f \in [Sources -> {[fixed |-> TRUE, outcome |-> r] :
                        r \in UNION {AnyResponse(s) : s \in Sources}}] :
     \A s \in Sources : f[s].outcome \in AnyResponse(s)}

\* main, lines 394-410, has run: the state StartRun leaves
ScanInit ==
  /\ run = 1
  /\ pc = "scan"
  /\ cred \in [Sources -> BOOLEAN]
  /\ retryAttempts \in 0..MaxRetry
  /\ retryDelay \in RetryDelays
  /\ stateFile \in ScanStates
  /\ previousState = getPreviousState(stateFile)
  /\ spc = [s \in Sources |-> "loop"]
  /\ attempt = [s \in Sources |-> 0]
  /\ result = [s \in Sources |-> NoResult]
  /\ loopResult = [s \in Sources |-> NoResult]
  /\ fetches = [s \in Sources |-> 0]
  /\ delays = [s \in Sources |-> 0]
  /\ allChanges = NoChanges
  /\ stateWritten = FALSE
  /\ scanLog = NoLog
  /\ discord = DisabledConfig
  /\ sent = <<>>
  /\ exitCode = -1
  /\ prior = [s \in Sources |-> NoPrior]
  /\ responses \in FixedResponses
  /\ DiffOff
  /\ EmbedOff
  /\ NotifyOff
  /\ NormOff
  /\ LogOff
  /\ SendOff
  /\ PostsOff

\* the callback scanEndpoints maps over the endpoints, for source s
SourceStep(s) == LoopAttempt(s) \/ RetryDelay(s) \/ LastFetch(s)

\* main after scanEndpoints has returned
AfterScan == BuildChanges \/ SaveState \/ LogScan \/ Notify \/ Exit

ScanNext ==
  \/ \E s \in Sources : LoopAttempt(s)
  \/ \E s \in Sources : RetryDelay(s)
  \/ \E s \in Sources : LastFetch(s)
  \/ BuildChanges
  \/ SaveState
  \/ LogScan
  \/ Notify
  \/ Exit

\* Every request ends (line 48: the request timeout) and every timer fires, so a
\* callback that can continue does; main runs on once Promise.all resolves.
ScanSpec ==
  /\ ScanInit
  /\ [][ScanNext]_vars
  /\ \A s \in Sources : WF_vars(SourceStep(s))
  /\ WF_vars(AfterScan)

(***************************************************************************)
(* Logger.saveState on its own: main, line 455, called with the results of *)
(* a scan whose records carry timestamp fields, a nested object and a key  *)
(* whose value is undefined.                                               *)
(***************************************************************************)
StoreRecords ==
  { [id |-> "s:a", owned_by |-> "s:x", created |-> "n:1"],
    [id |-> "s:a", owned_by |-> "s:y", updated |-> "s:x",
     modified_at |-> "n:2"],
    [id |-> "s:b", details |-> "{\"created\":1,\"family\":\"x\"}"],
    [id |-> "s:c", object |-> Undefined, created |-> "n:2"] }

StoreLists == UNION {[1..n -> StoreRecords] : n \in 0..MaxLen}

\* the outcomes scanEndpoints can return for source s
StoreOutcomes(s) ==
  {[endpoint |-> s, success |-> TRUE, configured |-> TRUE,
    error |-> Undefined, models |-> SortById(l)] : l \in StoreLists}
  \cup {Failure(s, e) : e \in FailErrors}
  \cup {Unconfigured(s)}

\* main, lines 410-452, has run
StoreInit ==
  /\ run = 1
  /\ pc = "save"
  /\ cred \in [Sources -> BOOLEAN]
  /\ retryAttempts = 0
  /\ retryDelay = 0
  /\ stateFile \in ScanStates
  /\ previousState = getPreviousState(stateFile)
  /\ spc = [s \in Sources |-> "returned"]
  /\ attempt = [s \in Sources |-> 0]
  /\ result \in {f \in [Sources -> UNION {StoreOutcomes(s) : s \in Sources}] :
                    \A s \in Sources :
                      /\ f[s] \in StoreOutcomes(s)
                      /\ f[s].configured = cred[s]}
  /\ loopResult = [s \in Sources |-> NoResult]
  /\ fetches = [s \in Sources |-> 0]
  /\ delays = [s \in Sources |-> 0]
  /\ allChanges = buildChanges(previousState, result)
  /\ stateWritten = FALSE
  /\ scanLog = NoLog
  /\ discord = DisabledConfig
  /\ sent = <<>>
  /\ exitCode = -1
  /\ prior = [s \in Sources |-> NoPrior]
  /\ responses = [s \in Sources |-> Unfixed]
  /\ DiffOff
  /\ EmbedOff
  /\ NotifyOff
  /\ NormOff
  /\ LogOff
  /\ SendOff
  /\ PostsOff

StoreNext == SaveState

StoreSpec == StoreInit /\ [][StoreNext]_vars

(***************************************************************************)
(* index.js: sanitize and sanitizeObject.  A string is the sequence of its *)
(* characters; a JSON value is a record tagged with its type, an object or *)
(* an array holding its Object.entries in order.                           *)
(***************************************************************************)
\* the characters of a string
Chars(str) == [i \in 1..Len(str) |-> SubSeq(str, i, i)]

UpperToLower ==
  [A |-> "a", B |-> "b", C |-> "c", D |-> "d", E |-> "e", F |-> "f", G |-> "g",
   H |-> "h", I |-> "i", J |-> "j", K |-> "k", L |-> "l", M |-> "m", N |-> "n",
   O |-> "o", P |-> "p", Q |-> "q", R |-> "r", S |-> "s", T |-> "t", U |-> "u",
   V |-> "v", W |-> "w", X |-> "x", Y |-> "y", Z |-> "z"]

Letters == DOMAIN UpperToLower \cup {UpperToLower[c] : c \in DOMAIN UpperToLower}

Digits == {"0", "1", "2", "3", "4", "5", "6", "7", "8", "9"}

\* String.prototype.toLowerCase
toLowerCase(text) ==
  [i \in 1..Len(text) |->
     IF text[i] \in DOMAIN UpperToLower THEN UpperToLower[text[i]] ELSE text[i]]

\* String.prototype.includes
includes(text, part) ==
  \E i \in 1..(Len(text) - Len(part) + 1) :
    SubSeq(text, i, i + Len(part) - 1) = part

\* the character classes of the patterns of sanitize: [a-zA-Z0-9\-_], \s,
\* [^"] and [^\s]
InClass(c, class) ==
  CASE class = "token"    -> c \in Letters \cup Digits \cup {"-", "_"}
    [] class = "space"    -> c \in {" ", "\t", "\n", "\r"}
    [] class = "notQuote" -> c # "\""
    [] class = "notSpace" -> c \notin {" ", "\t", "\n", "\r"}

\* the literal `lit` at position i of text, under the flag i
LitAt(text, i, lit) ==
  /\ i + Len(lit) - 1 <= Len(text)
  /\ toLowerCase(SubSeq(text, i, i + Len(lit) - 1)) = toLowerCase(lit)

\* length of the longest run of characters of a class from position i on
RECURSIVE Run(_, _, _)
Run(text, i, class) ==
  IF i <= Len(text) /\ InClass(text[i], class)
  THEN 1 + Run(text, i + 1, class)
  ELSE 0

\* line 335: /(sk-|AKIA|eyJ)[a-zA-Z0-9\-_]{10,}/gi ; the length of the match at
\* position i, 0 when there is none
MatchVendorKey(text, i) ==
  LET prefixes == {Chars("sk-"), Chars("AKIA"), Chars("eyJ")}
      hits == {p \in prefixes :
                 LitAt(text, i, p) /\ Run(text, i + Len(p), "token") >= 10}
  IN IF hits = {} THEN 0
     ELSE LET p == CHOOSE q \in hits : TRUE
          IN Len(p) + Run(text, i + Len(p), "token")

\* the tail \s*:\s*"[^"]+" of the patterns of lines 336 and 337, from
\* position j on: its length, 0 when it does not match
MatchQuotedValue(text, j) ==
  LET colon == j + Run(text, j, "space")
      quote == colon + 1 + Run(text, colon + 1, "space")
      body == Run(text, quote + 1, "notQuote")
      close == quote + 1 + body
  IN IF /\ LitAt(text, colon, Chars(":"))
        /\ LitAt(text, quote, Chars("\""))
        /\ body >= 1
        /\ LitAt(text, close, Chars("\""))
     THEN close + 1 - j
     ELSE 0

\* line 336: /"api[_-]?key"\s*:\s*"[^"]+"/gi
MatchApiKey(text, i) ==
  LET sep == IF i + 4 <= Len(text) /\ text[i + 4] \in {"_", "-"} THEN 1 ELSE 0
      rest == i + 4 + sep + 4
  IN IF /\ LitAt(text, i, Chars("\"api"))
        /\ LitAt(text, i + 4 + sep, Chars("key\""))
        /\ MatchQuotedValue(text, rest) > 0
     THEN rest - i + MatchQuotedValue(text, rest)
     ELSE 0

\* line 337: /"bearer"\s*:\s*"[^"]+"/gi
MatchBearerField(text, i) ==
  IF LitAt(text, i, Chars("\"bearer\"")) /\ MatchQuotedValue(text, i + 8) > 0
  THEN 8 + MatchQuotedValue(text, i + 8)
  ELSE 0

\* line 338: /Authorization:\s*Bearer\s+[^\s]+/gi
MatchAuthorization(text, i) ==
  LET bearer == i + 14 + Run(text, i + 14, "space")
      gap == Run(text, bearer + 6, "space")
      token == Run(text, bearer + 6 + gap, "notSpace")
  IN IF /\ LitAt(text, i, Chars("Authorization:"))
        /\ LitAt(text, bearer, Chars("Bearer"))
        /\ gap >= 1
        /\ token >= 1
     THEN bearer + 6 + gap + token - i
     ELSE 0

MatchAt(pattern, text, i) ==
  CASE pattern = "vendorKey"     -> MatchVendorKey(text, i)
    [] pattern = "apiKey"        -> MatchApiKey(text, i)
    [] pattern = "bearerField"   -> MatchBearerField(text, i)
    [] pattern = "authorization" -> MatchAuthorization(text, i)

REDACTED == Chars("[REDACTED]")

Replacement(pattern) ==
  CASE pattern = "vendorKey"     -> REDACTED
    [] pattern = "apiKey"        -> Chars("\"api_key\": \"[REDACTED]\"")
    [] pattern = "bearerField"   -> Chars("\"bearer\": \"[REDACTED]\"")
    [] pattern = "authorization" -> Chars("Authorization: Bearer [REDACTED]")

\* String.prototype.replace with a global pattern, from position i on: the
\* leftmost match is replaced and the search goes on behind it
RECURSIVE replace(_, _, _)
replace(text, pattern, i) ==
  IF i > Len(text) THEN <<>>
  ELSE IF MatchAt(pattern, text, i) > 0
       THEN Replacement(pattern)
            \o replace(text, pattern, i + MatchAt(pattern, text, i))
       ELSE <<text[i]>> \o replace(text, pattern, i + 1)

\* lines 329-341
sanitize(text) ==
  replace(replace(replace(replace(text, "vendorKey", 1), "apiKey", 1),
                  "bearerField", 1), "authorization", 1)

\* JSON values
Str(text) == [t |-> "str", s |-> text]
Num(n) == [t |-> "num", n |-> n]
Bool(b) == [t |-> "bool", b |-> b]
Null == [t |-> "null"]
Undef == [t |-> "undef"]
\* one of the Object.entries of an object
Entry(key, value) == [k |-> Chars(key), v |-> value]
Obj(entries) == [t |-> "obj", e |-> entries]
DigitOf == <<"0", "1", "2", "3", "4", "5", "6", "7", "8", "9">>
\* the key Object.entries gives the element at index i of an array
RECURSIVE IndexKey(_)
IndexKey(i) ==
  IF i < 10 THEN <<DigitOf[i + 1]>>
  ELSE IndexKey(i \div 10) \o <<DigitOf[(i % 10) + 1]>>
Arr(items) ==
  [t |-> "arr",
   e |-> [i \in 1..Len(items) |-> [k |-> IndexKey(i - 1), v |-> items[i]]]]

\* the keys sanitizeObject blanks: lines 356-361
SensitiveKey(key) ==
  LET keyLower == toLowerCase(key)
  IN \/ includes(keyLower, Chars("key"))
     \/ includes(keyLower, Chars("token"))
     \/ includes(keyLower, Chars("secret"))
     \/ includes(keyLower, Chars("password"))
     \/ includes(keyLower, Chars("bearer"))
     \/ includes(keyLower, Chars("auth"))

\* nested objects and arrays copied as they are
sanitizeObjectShallow(obj) ==
  IF obj.t \in {"null", "undef"} THEN obj
  ELSE IF obj.t = "str" THEN Str(sanitize(obj.s))
  ELSE IF obj.t \notin {"obj", "arr"} THEN obj
  ELSE [obj EXCEPT !.e =
          [i \in 1..Len(obj.e) |->
             [k |-> obj.e[i].k,
              v |-> IF SensitiveKey(obj.e[i].k) THEN Str(REDACTED)
                   ELSE IF obj.e[i].v.t = "str"
                        THEN Str(sanitize(obj.e[i].v.s))
                        ELSE obj.e[i].v]]]

\* lines 348-373
RECURSIVE sanitizeObject(_)
sanitizeObject(obj) ==
  IF obj.t \in {"null", "undef"} THEN obj
  ELSE IF obj.t = "str" THEN Str(sanitize(obj.s))
  ELSE IF obj.t \notin {"obj", "arr"} THEN obj
  ELSE [obj EXCEPT !.e =
          [i \in 1..Len(obj.e) |->
             [k |-> obj.e[i].k,
              v |-> IF SensitiveKey(obj.e[i].k) THEN Str(REDACTED)
                   ELSE IF obj.e[i].v.t = "str"
                        THEN Str(sanitize(obj.e[i].v.s))
                        ELSE IF obj.e[i].v.t \in {"obj", "arr", "null"}
                             THEN sanitizeObject(obj.e[i].v)
                             ELSE obj.e[i].v]]]

\* obj[key]
Get(obj, key) ==
  IF obj.t \in {"obj", "arr"}
     /\ \E i \in 1..Len(obj.e) : obj.e[i].k = Chars(key)
  THEN obj.e[CHOOSE i \in 1..Len(obj.e) : obj.e[i].k = Chars(key)].v
  ELSE Undef

RECURSIVE DropUndefined(_)
DropUndefined(entries) ==
  IF entries = <<>> THEN <<>>
  ELSE IF Head(entries).v.t = "undef" THEN DropUndefined(Tail(entries))
       ELSE <<Head(entries)>> \o DropUndefined(Tail(entries))

\* what JSON.parse reads back from JSON.stringify(value): an object loses the
\* keys whose value is undefined, an array holds null in their place
RECURSIVE JSONfile(_)
JSONfile(value) ==
  IF value.t = "obj"
  THEN LET kept == DropUndefined(value.e)
       IN Obj([i \in 1..Len(kept) |->
                 [k |-> kept[i].k, v |-> JSONfile(kept[i].v)]])
  ELSE IF value.t = "arr"
       THEN [value EXCEPT !.e =
               [i \in 1..Len(value.e) |->
                  [k |-> value.e[i].k,
                   v |-> IF value.e[i].v.t = "undef" THEN Null
                         ELSE JSONfile(value.e[i].v)]]]
       ELSE value

\* Logger.logScan, lines 99-113: the entry written; `when` stands for
\* new Date().toISOString()
logEntry(results, changes, when) ==
  LET rs == [i \in 1..Len(results.e) |-> results.e[i].v]
      Succeeded(r) == Get(r, "success") = Bool(TRUE)
      ok == {i \in 1..Len(rs) : Succeeded(rs[i])}
  IN Obj(<<
       Entry("timestamp", Str(when)),
       Entry("scan", Obj(<<
         Entry("totalEndpoints", Num(Len(rs))),
         Entry("successful", Num(Cardinality(ok))),
         Entry("failed", Num(Len(rs) - Cardinality(ok)))>>)),
       Entry("results", Arr([i \in 1..Len(rs) |->
         Obj(<<
           Entry("endpoint", Get(rs[i], "endpoint")),
           Entry("success", Get(rs[i], "success")),
           Entry("modelCount",
                 IF Succeeded(rs[i])
                 THEN Num(Len(Get(rs[i], "models").e)) ELSE Num(0)),
           Entry("models",
                 IF Succeeded(rs[i]) THEN Get(rs[i], "models") ELSE Undef),
           Entry("error", Get(rs[i], "error"))>>)])),
       Entry("changes", changes)>>)

NoLogFile == Undef

(***************************************************************************)
(* main, lines 457-460, on its own: the results and changes of a scan are  *)
(* sanitized and logged.  Texts arrive as error messages and as values of  *)
(* model records; records carry secrets under keys at several depths.      *)
(***************************************************************************)
PlainText == Chars("HTTP 500")
BareBearerText == Chars("bad token Bearer abc123")
AuthorizationText == Chars("Authorization: Bearer abc123")
VendorKeyText == Chars("sk-abcdefghij12 rejected")
ApiKeyJsonText == Chars("{\"api-key\": \"abc123\"}")
BearerJsonText == Chars("{\"Bearer\" : \"abc123\"}")

LogTexts == {PlainText, BareBearerText, AuthorizationText, VendorKeyText,
             ApiKeyJsonText, BearerJsonText}

SecretValue == Chars("abc123")
OtherSecretValue == Chars("xyz789")

PlainModel ==
  Obj(<<Entry("id", Str(Chars("a"))), Entry("owned_by", Str(Chars("x")))>>)

MetaOf(text, secret) ==
  Obj(<<Entry("Client_Secret", Str(secret)),
        Entry("note", Str(text)),
        Entry("limits", Obj(<<Entry("max_tokens", Num(1)),
                             Entry("access", Obj(<<
                               Entry("PassWord", Str(secret))>>))>>))>>)

TagsOf(text, secret) ==
  Arr(<<Str(text), Obj(<<Entry("AUTH", Str(secret))>>)>>)

SecretModel(text, secret) ==
  Obj(<<Entry("id", Str(Chars("b"))),
        Entry("apiKey", Str(secret)),
        Entry("meta", MetaOf(text, secret)),
        Entry("tags", TagsOf(text, secret))>>)

EmptyDelta(error) ==
  Obj(<<Entry("error", error), Entry("added", Arr(<<>>)),
        Entry("removed", Arr(<<>>)), Entry("updated", Arr(<<>>))>>)

Summary(a, r, u) ==
  Obj(<<Entry("addedCount", Num(a)), Entry("removedCount", Num(r)),
        Entry("updatedCount", Num(u))>>)

\* scanner.js, lines 69-76, and main, line 450: a failed request
FailedCase(name, text) ==
  [result |-> Obj(<<Entry("success", Bool(FALSE)), Entry("error", Str(text)),
                    Entry("endpoint", Str(Chars(name))), Entry("code", Undef)>>),
   changes |-> EmptyDelta(Str(text))]

\* scanner.js, lines 16-23, and main, line 450: no API key
UnconfiguredCase(name) ==
  [result |-> Obj(<<Entry("success", Bool(FALSE)),
                    Entry("configured", Bool(FALSE)),
                    Entry("error", Str(Chars("API key not found in env variable: K1"))),
                    Entry("endpoint", Str(Chars(name)))>>),
   changes |-> EmptyDelta(Str(Chars("API key not found in env variable: K1")))]

SucceededResult(name, models) ==
  Obj(<<Entry("success", Bool(TRUE)), Entry("endpoint", Str(Chars(name))),
        Entry("models", Arr(models)),
        Entry("raw", Obj(<<Entry("data", Arr(models))>>))>>)

\* scanner.js, lines 54-59 and 199-229: a source seen for the first time
FirstScanCase(name, models) ==
  [result |-> SucceededResult(name, models),
   changes |-> Obj(<<Entry("added", Arr(models)), Entry("removed", Arr(<<>>)),
                     Entry("updated", Arr(<<>>)),
                     Entry("summary", Summary(Len(models), 0, 0))>>)]

OldNew(old, new) == Obj(<<Entry("old", old), Entry("new", new)>>)

\* scanner.js, lines 199-253: the stored snapshot had the record b with the
\* texts and secrets of before
UpdatedCase(name, before, text) ==
  LET old == SecretModel(before, OtherSecretValue)
      new == SecretModel(text, SecretValue)
  IN [result |-> SucceededResult(name, <<PlainModel, new>>),
      changes |-> Obj(<<
        Entry("added", Arr(<<PlainModel>>)), Entry("removed", Arr(<<>>)),
        Entry("updated", Arr(<<Obj(<<
          Entry("model", new),
          Entry("changes", Obj(<<
            Entry("apiKey", OldNew(Get(old, "apiKey"), Get(new, "apiKey"))),
            Entry("meta", OldNew(Get(old, "meta"), Get(new, "meta"))),
            Entry("tags", OldNew(Get(old, "tags"), Get(new, "tags")))>>))>>)>>)),
        Entry("summary", Summary(1, 0, 1))>>)]

SanitizeCases(name) ==
  {FailedCase(name, text) : text \in LogTexts}
  \cup {UnconfiguredCase(name)}
  \cup {FirstScanCase(name, <<PlainModel>>)}
  \cup {FirstScanCase(name, <<PlainModel, SecretModel(text, SecretValue)>>) :
          text \in LogTexts}
  \cup {UpdatedCase(name, PlainText, text) : text \in LogTexts \ {PlainText}}

SanitizeInit ==
  /\ MainInit
  /\ DiffOff
  /\ EmbedOff
  /\ NotifyOff
  /\ NormOff
  /\ SendOff
  /\ PostsOff
  /\ \E c1 \in SanitizeCases("s1"), c2 \in SanitizeCases("s2") :
       /\ zResults = Arr(<<c1.result, c2.result>>)
       /\ zChanges = Obj(<<Entry("s1", c1.changes), Entry("s2", c2.changes)>>)
  /\ zLog = NoLogFile
  /\ zpc = "ready"

\* main, lines 458-460; a failed write (logger.js, lines 116-121) leaves no
\* file
SanitizeAndLog ==
  /\ zpc = "ready"
  /\ \E ok \in BOOLEAN :
       zLog' = IF ok
               THEN JSONfile(logEntry(sanitizeObject(zResults),
                                      sanitizeObject(zChanges), Chars("2026")))
               ELSE NoLogFile
  /\ zpc' = "done"
  /\ UNCHANGED <<mainVars, sendVars, postVars,
                 diffVars, embedVars, notifyVars, normVars,
                 zResults, zChanges>>

SanitizeNext == SanitizeAndLog

SanitizeSpec == SanitizeInit /\ [][SanitizeNext]_vars

(***************************************************************************)
(* compareModels on its own: every pair of record lists with unique ids,   *)
(* of at most MaxLen records each.                                         *)
(***************************************************************************)
\* "s:a" and "s:A" differ only in case
DiffIds == {"s:a", "s:b", "s:A"}

DiffRecords ==
  { [id |-> i, owned_by |-> o] : i \in DiffIds, o \in {"s:x", "s:y"} }
  \cup { [id |-> i, owned_by |-> o, created |-> "n:1"] :
           i \in DiffIds, o \in {"s:x", "s:y"} }

UniqueIds(models) ==
  \A i, j \in 1..Len(models) :
    i # j => Val(models[i], "id") # Val(models[j], "id")

RecordLists ==
  { l \in UNION { [1..n -> DiffRecords] : n \in 0..MaxLen } : UniqueIds(l) }

DiffInit ==
  /\ MainInit
  /\ EmbedOff
  /\ NotifyOff
  /\ NormOff
  /\ LogOff
  /\ SendOff
  /\ PostsOff
  /\ dOld \in RecordLists
  /\ dNew \in RecordLists
  /\ dOut = NoDiff
  /\ dpc = "ready"

Compare ==
  /\ dpc = "ready"
  /\ dOut' = compareModels(dOld, dNew)
  /\ dpc' = "done"
  /\ UNCHANGED <<mainVars, sendVars, postVars,
                 dOld, dNew, embedVars, notifyVars, normVars,
                 logVars>>

DiffNext == Compare

DiffSpec == DiffInit /\ [][DiffNext]_vars

(***************************************************************************)
(* The embed builders on their own: every builder, for lists of 0 to       *)
(* MaxItems items with distinct ids, in ascending or descending id order.  *)
(***************************************************************************)
ItemIds(n, descending) ==
  [i \in 1..n |-> IF descending THEN n + 1 - i ELSE i]

ModelItems(n, descending) ==
  [i \in 1..n |-> [id |-> ItemIds(n, descending)[i]]]

UpdateItems(n, descending) ==
  [i \in 1..n |->
     [model |-> [id |-> ItemIds(n, descending)[i]],
      changes |-> [owned_by |-> [old |-> "s:x", new |-> "s:y"]]]]

EmbedInit ==
  /\ MainInit
  /\ DiffOff
  /\ NotifyOff
  /\ NormOff
  /\ LogOff
  /\ SendOff
  /\ PostsOff
  /\ eKind \in {"new_model", "removed_model", "model_updated"}
  /\ eEndpoint \in Sources
  /\ \E n \in 0..MaxItems : \E descending \in BOOLEAN :
       eItems = IF eKind = "model_updated"
                THEN UpdateItems(n, descending)
                ELSE ModelItems(n, descending)
  /\ ePayload = NoPayload
  /\ epc = "ready"

RenderNew ==
  /\ epc = "ready"
  /\ eKind = "new_model"
  /\ ePayload' = createNewModelsEmbed(eEndpoint, eItems)
  /\ epc' = "done"
  /\ UNCHANGED <<mainVars, sendVars, postVars,
                 diffVars, notifyVars, normVars, logVars, eKind,
                 eEndpoint, eItems>>

RenderRemoved ==
  /\ epc = "ready"
  /\ eKind = "removed_model"
  /\ ePayload' = createRemovedModelsEmbed(eEndpoint, eItems)
  /\ epc' = "done"
  /\ UNCHANGED <<mainVars, sendVars, postVars,
                 diffVars, notifyVars, normVars, logVars, eKind,
                 eEndpoint, eItems>>

RenderUpdated ==
  /\ epc = "ready"
  /\ eKind = "model_updated"
  /\ ePayload' = createUpdatedModelsEmbed(eEndpoint, eItems)
  /\ epc' = "done"
  /\ UNCHANGED <<mainVars, sendVars, postVars,
                 diffVars, notifyVars, normVars, logVars, eKind,
                 eEndpoint, eItems>>

EmbedNext == RenderNew \/ RenderRemoved \/ RenderUpdated

EmbedSpec == EmbedInit /\ [][EmbedNext]_vars

(***************************************************************************)
(* processNotifications on its own: three sources, each assigned to no     *)
(* group, to the group "small" or to a group without webhook, each with    *)
(* one of the outcomes of a scan and the delta main builds for it.         *)
(***************************************************************************)
NotifyNames == <<"s1", "s2", "s3">>

NotifySources == {"s1", "s2", "s3"}

NotifyGroups == {Undefined, "small", "other"}

NotifyEndpoints ==
  { [i \in 1..Len(NotifyNames) |-> [name |-> NotifyNames[i], group |-> g[i]]] :
      g \in [1..Len(NotifyNames) -> NotifyGroups] }

\* the bodies fetched in the run, and the snapshots a state document holds
NotifyResponses ==
  { [kind |-> "data", items |-> <<RecAy>>],
    [kind |-> "data", items |-> <<RecB, RecAx>>] }

NotifySnapshots(s) ==
  {<<>>} \cup { SeqMap(JSONroundtrip, stripTimestamps(normalizeModels(raw, s))) :
                  raw \in NotifyResponses }

\* a result of scanEndpoints and the entry of allChanges main builds for it
NotifyCases(s) ==
  { [result |-> Success(s, raw),
     changes |-> compareModels(old, normalizeModels(raw, s))] :
      raw \in NotifyResponses, old \in NotifySnapshots(s) }
  \cup { [result |-> Failure(s, e), changes |-> FailedChanges(Failure(s, e))] :
           e \in FailErrors }
  \cup { [result |-> Unconfigured(s),
          changes |-> FailedChanges(Unconfigured(s))] }

NotifyInit ==
  /\ MainInit
  /\ DiffOff
  /\ EmbedOff
  /\ NormOff
  /\ LogOff
  /\ SendOff
  /\ PostsOff
  /\ nEndpoints \in NotifyEndpoints
  /\ \E c1 \in NotifyCases("s1"), c2 \in NotifyCases("s2"),
        c3 \in NotifyCases("s3") :
       /\ nResults = [s1 |-> c1.result, s2 |-> c2.result, s3 |-> c3.result]
       /\ nChanges = [s1 |-> c1.changes, s2 |-> c2.changes, s3 |-> c3.changes]
  /\ nConfig \in DiscordConfigs
  /\ nSent = <<>>
  /\ npc = "ready"

ProcessNotifications ==
  /\ npc = "ready"
  /\ nSent' = processNotifications(nConfig, nResults, nChanges, nEndpoints)
  /\ npc' = "done"
  /\ UNCHANGED <<mainVars, sendVars, postVars,
                 diffVars, embedVars, normVars, logVars,
                 nEndpoints, nResults,
                 nChanges, nConfig>>

NotifyNext == ProcessNotifications

NotifySpec == NotifyInit /\ [][NotifyNext]_vars

(***************************************************************************)
(* fetchModels from the arrival of a 2xx response: every body of the       *)
(* families below with up to MaxLen items, for an endpoint named           *)
(* "GitHub Models" and one with another name.                              *)
(***************************************************************************)
NormItems ==
  { [id |-> "s:a", owned_by |-> "s:x", created |-> "n:1"],
    [id |-> "s:a", owned_by |-> "s:y"],
    [id |-> "s:b", owned_by |-> "s:x", vendor |-> "s:y"],
    [id |-> "s:A"],
    [name |-> "s:b", family |-> "s:x", modified_at |-> "n:1"],
    [id |-> "s:", name |-> "s:c"],
    NullItem }

NormLists == UNION { [1..n -> NormItems] : n \in 0..MaxLen }

NormBodies ==
  { [kind |-> k, items |-> l] : k \in {"data", "array", "models"},
                                 l \in NormLists }
  \cup { [kind |-> k, items |-> <<>>] : k \in {"null", "scalar", "object"} }

NormInit ==
  /\ MainInit
  /\ DiffOff
  /\ EmbedOff
  /\ NotifyOff
  /\ LogOff
  /\ SendOff
  /\ PostsOff
  /\ fEndpoint \in {"s1", "GitHub Models"}
  /\ fData \in NormBodies
  /\ fOut = NoResult
  /\ fpc = "ready"

Respond ==
  /\ fpc = "ready"
  /\ fOut' \in Respond2xx(fEndpoint, fData)
  /\ fpc' = "done"
  /\ UNCHANGED <<mainVars, sendVars, postVars,
                 diffVars, embedVars, notifyVars, logVars,
                 fEndpoint, fData>>

NormNext == Respond

NormSpec == NormInit /\ [][NormNext]_vars

(***************************************************************************)
(* webhook.js: sendDiscordWebhook on its own.  A field value is the list   *)
(* of its lines (value.split('\n')); an embed records its title and its    *)
(* fields, fields being empty for an embed without the key.                *)
(***************************************************************************)
MAX_EMBEDS_PER_MESSAGE == 10
MAX_MODELS_PER_EMBED == 50

MaxFieldLines == 51
MaxFields == 3
MaxCopies == 11

\* l.trim() of a line
trim(l) == IF l \in {"", " ", "  "} THEN "" ELSE l

\* field.value.split('\n').filter(l => l.trim()).length
fieldCount(field) ==
  Cardinality({i \in 1..Len(field.value) : trim(field.value[i]) # ""})

RECURSIVE totalFrom(_, _)
totalFrom(fields, j) ==
  IF j > Len(fields) THEN 0
  ELSE fieldCount(fields[j]) + totalFrom(fields, j + 1)

\* lines 594-599: totalModels of an embed
totalModels(embed) == totalFrom(embed.fields, 1)

RECURSIVE splitFieldsDropsLast(_, _, _, _)
splitFieldsDropsLast(fields, j, current, currentCount) ==
  IF j > Len(fields)
  THEN <<>>
  ELSE IF /\ currentCount + fieldCount(fields[j]) > MAX_MODELS_PER_EMBED
          /\ Len(current) > 0
       THEN <<current>> \o splitFieldsDropsLast(fields, j + 1, <<fields[j]>>,
                                                fieldCount(fields[j]))
       ELSE splitFieldsDropsLast(fields, j + 1, Append(current, fields[j]),
                                 currentCount + fieldCount(fields[j]))

\* lines 603-620: the field lists of the embeds an embed is split into, from
\* field j on, with currentEmbed.fields and currentCount as they stand
RECURSIVE splitFields(_, _, _, _)
splitFields(fields, j, current, currentCount) ==
  IF j > Len(fields)
  THEN IF Len(current) > 0 THEN <<current>> ELSE <<>>
  ELSE IF /\ currentCount + fieldCount(fields[j]) > MAX_MODELS_PER_EMBED
          /\ Len(current) > 0
       THEN <<current>> \o splitFields(fields, j + 1, <<fields[j]>>,
                                       fieldCount(fields[j]))
       ELSE splitFields(fields, j + 1, Append(current, fields[j]),
                        currentCount + fieldCount(fields[j]))

\* lines 592-626: what one embed of the payload adds to allEmbeds
splitEmbed(embed) ==
  IF Len(embed.fields) > 0 /\ totalModels(embed) > MAX_MODELS_PER_EMBED
  THEN LET parts == splitFields(embed.fields, 1, <<>>, 0)
       IN  [p \in 1..Len(parts) |-> [embed EXCEPT !.fields = parts[p]]]
  ELSE <<embed>>

RECURSIVE allEmbedsFrom(_, _)
allEmbedsFrom(embeds, k) ==
  IF k > Len(embeds) THEN <<>>
  ELSE splitEmbed(embeds[k]) \o allEmbedsFrom(embeds, k + 1)

\* lines 588-627
allEmbeds(payload) == allEmbedsFrom(payload.embeds, 1)

\* line 631: allEmbeds.slice(i, i + MAX_EMBEDS_PER_MESSAGE), i counted from 0
chunk(all, i) ==
  SubSeq(all, i + 1, Min(i + MAX_EMBEDS_PER_MESSAGE, Len(all)))

\* the payloads sendDiscordWebhook is followed on: a field of n item lines,
\* with or without blank lines around them
ItemLines(n, blanks) ==
  IF blanks THEN <<" ">> \o [i \in 1..n |-> "- m"] \o <<"">>
  ELSE [i \in 1..n |-> "- m"]

FieldSizes == {1, MAX_MODELS_PER_EMBED \div 2 + 1, MaxFieldLines}

FieldNames == <<"A", "B", "C", "D">>

FieldLists ==
  UNION { { [j \in 1..n |-> [name |-> FieldNames[j],
                             value |-> ItemLines(size[j], j = 2)]] :
              size \in [1..n -> FieldSizes] } : n \in 0..MaxFields }

TailEmbeds ==
  { <<>>,
    <<[title |-> "tail", fields |-> <<>>]>>,
    <<[title |-> "tail",
       fields |-> <<[name |-> "A", value |-> ItemLines(30, FALSE)],
                    [name |-> "B", value |-> ItemLines(30, TRUE)]>>]>> }

SendPayloads ==
  { [embeds |-> [k \in 1..n |-> [title |-> ToString(k), fields |-> fl]] \o tl] :
      n \in 0..MaxCopies, fl \in FieldLists, tl \in TailEmbeds }

SendInit ==
  /\ MainInit
  /\ DiffOff
  /\ EmbedOff
  /\ NotifyOff
  /\ NormOff
  /\ LogOff
  /\ PostsOff
  /\ wUrl \in BOOLEAN
  /\ wPayload \in SendPayloads
  /\ wAll = <<>>
  /\ wNext = 0
  /\ wPosts = <<>>
  /\ wReturn = "none"
  /\ wpc = "ready"

\* lines 583-586: no webhook URL
SendWithoutUrl ==
  /\ wpc = "ready"
  /\ ~wUrl
  /\ wReturn' = FALSE
  /\ wpc' = "done"
  /\ UNCHANGED <<mainVars, diffVars, embedVars, notifyVars, normVars, logVars,
                 postVars, wUrl, wPayload, wAll, wNext, wPosts>>

\* lines 588-627: allEmbeds is built
SplitEmbeds ==
  /\ wpc = "ready"
  /\ wUrl
  /\ wAll' = allEmbeds(wPayload)
  /\ wNext' = 0
  /\ wpc' = "posting"
  /\ UNCHANGED <<mainVars, diffVars, embedVars, notifyVars, normVars, logVars,
                 postVars, wUrl, wPayload, wPosts, wReturn>>

\* lines 630-640: one pass of the posting loop; a POST that fails throws and
\* the catch at lines 643-647 returns false
PostChunk ==
  /\ wpc = "posting"
  /\ wNext < Len(wAll)
  /\ \E ok \in BOOLEAN :
       /\ wPosts' = Append(wPosts, [embeds |-> chunk(wAll, wNext), ok |-> ok])
       /\ IF ok
          THEN /\ wNext' = wNext + MAX_EMBEDS_PER_MESSAGE
               /\ UNCHANGED <<wReturn, wpc>>
          ELSE /\ wReturn' = FALSE
               /\ wpc' = "done"
               /\ UNCHANGED wNext
  /\ UNCHANGED <<mainVars, diffVars, embedVars, notifyVars, normVars, logVars,
                 postVars, wUrl, wPayload, wAll>>

\* line 642: the loop is over, return true
SendReturns ==
  /\ wpc = "posting"
  /\ wNext >= Len(wAll)
  /\ wReturn' = TRUE
  /\ wpc' = "done"
  /\ UNCHANGED <<mainVars, diffVars, embedVars, notifyVars, normVars, logVars,
                 postVars, wUrl, wPayload, wAll, wNext, wPosts>>

SendNext == SendWithoutUrl \/ SplitEmbeds \/ PostChunk \/ SendReturns

SendSpec == SendInit /\ [][SendNext]_vars

(***************************************************************************)
(* The posts watcher (posts-watcher.js): loadState, extractPostId,         *)
(* createNewPostsEmbed and main.  A guid or link is [kind, num]: kind      *)
(* "status" for a text holding status/<num>, "other" for a text without a  *)
(* status number, "empty" for the empty string.  A post id is the digit    *)
(* string of a status link, [kind |-> "digits", num], or the whole text.   *)
(***************************************************************************)
maxSeenIds == 100
postsMaxTotal == 10

MaxPostRuns == 3

PostUsers == <<"u1", "u2">>

StatusLink(n) == [kind |-> "status", num |-> n]
OtherLink(n) == [kind |-> "other", num |-> n]
EmptyText == [kind |-> "empty", num |-> 0]

\* linkOrGuid.match(/status\/(\d+)/) ? match[1] : linkOrGuid
extractPostId(linkOrGuid) ==
  IF linkOrGuid.kind = "status"
  THEN [kind |-> "digits", num |-> linkOrGuid.num]
  ELSE linkOrGuid

\* extractPostId(item.guid || item.link)
PostIdOf(item) ==
  extractPostId(IF item.guid.kind # "empty" THEN item.guid ELSE item.link)

PostIds(items) == [i \in 1..Len(items) |-> PostIdOf(items[i])]

\* an item of the feed as parseRSS returns it; guid defaults to the link
Post(n) == [guid |-> StatusLink(n), link |-> StatusLink(n), pubDate |-> n]

\* the posts lo..hi, newest first
Window(lo, hi) == [i \in 1..(hi - lo + 1) |-> Post(hi + 1 - i)]

\* what fetchUserFeed may return for a user in a run; <<>> is also the result
\* of a failed request
Feeds(u) ==
  IF u = "u1"
  THEN { <<>>,
         Window(1, 3),
         <<Post(1)>> \o Window(4, maxSeenIds + 3),
         Window(1, maxSeenIds + 1) }
  ELSE { <<>>,
         <<[guid |-> OtherLink(1), link |-> StatusLink(7), pubDate |-> 2],
           [guid |-> EmptyText, link |-> StatusLink(2), pubDate |-> 1]>> }

NoPostsFile == [exists |-> FALSE, users |-> [u \in {"u1", "u2"} |-> <<>>]]

\* loadState: the saved object, or { users: {} }; a user without entry has
\* seenIds <<>> here
loadState(file) ==
  IF file.exists THEN [users |-> file.users] ELSE [users |-> NoPostsFile.users]

\* saveState: the file written for the object state
savePostsState(state) == [exists |-> TRUE, users |-> state.users]

Includes(seq, x) == \E i \in 1..Len(seq) : seq[i] = x

\* items.filter(item => !seenIds.includes(postId))
RECURSIVE newPostsFrom(_, _, _)
newPostsFrom(items, seenIds, i) ==
  IF i > Len(items) THEN <<>>
  ELSE (IF Includes(seenIds, PostIdOf(items[i])) THEN <<>> ELSE <<items[i]>>)
       \o newPostsFrom(items, seenIds, i + 1)

\* newPosts.sort((a, b) => new Date(b.pubDate) - new Date(a.pubDate)): the
\* place of item i in the sorted list, the sort being stable
DatePlace(posts, i) ==
  1 + Cardinality({j \in 1..Len(posts) :
                     \/ posts[j].pubDate > posts[i].pubDate
                     \/ posts[j].pubDate = posts[i].pubDate /\ j < i})

SortByDate(posts) ==
  LET place == [i \in 1..Len(posts) |-> DatePlace(posts, i)]
  IN  [p \in 1..Len(posts) |->
         posts[CHOOSE i \in 1..Len(posts) : place[i] = p]]

\* main, lines 267-275
newPosts(items, seenIds) == SortByDate(newPostsFrom(items, seenIds, 1))

\* line 288: [...newIds, ...seenIds].slice(0, 100)
seenIdsAfter(newIds, seenIds) ==
  SubSeq(newIds \o seenIds, 1, Min(maxSeenIds, Len(newIds) + Len(seenIds)))

\* createNewPostsEmbed: the posts the notification lists; above maxTotal it
\* names their number only
listedPosts(posts) ==
  IF Len(posts) > postsMaxTotal THEN <<>> ELSE PostIds(posts)

RangeOf(seq) == {seq[i] : i \in 1..Len(seq)}

NothingReported == [u \in {"u1", "u2"} |-> [once |-> {}, again |-> {}]]

PostsInit ==
  /\ MainInit
  /\ DiffOff
  /\ EmbedOff
  /\ NotifyOff
  /\ NormOff
  /\ LogOff
  /\ SendOff
  /\ xRun = 0
  /\ xpc = "idle"
  /\ xIdx = 0
  /\ xFile = NoPostsFile
  /\ xMem = loadState(NoPostsFile)
  /\ xNotes = <<>>
  /\ xReported = NothingReported

\* main, lines 235-252: a run starts; without webhook URL it exits with 1
StartPosts ==
  /\ xpc \in {"idle", "exited"}
  /\ xRun < MaxPostRuns
  /\ xRun' = xRun + 1
  /\ xNotes' = <<>>
  /\ \E webhookUrl \in BOOLEAN :
       IF webhookUrl
       THEN /\ xMem' = loadState(xFile)
            /\ xIdx' = 1
            /\ xpc' = "users"
       ELSE /\ xpc' = "exited"
            /\ UNCHANGED <<xMem, xIdx>>
  /\ UNCHANGED <<mainVars, diffVars, embedVars, notifyVars, normVars, logVars,
                 sendVars, xFile, xReported>>

\* main, lines 255-292: one pass of the loop over the users
CheckUser ==
  /\ xpc = "users"
  /\ xIdx <= Len(PostUsers)
  /\ xIdx' = xIdx + 1
  /\ LET username == PostUsers[xIdx]
         seenIds == xMem.users[username]
     IN \E items \in Feeds(username) : \E ok \in BOOLEAN :
          LET new == newPosts(items, seenIds)
              newIds == PostIds(new)
              listed == IF ok THEN RangeOf(listedPosts(new)) ELSE {}
          IN IF Len(items) = 0 \/ Len(new) = 0
             THEN UNCHANGED <<xMem, xNotes, xReported>>
             ELSE /\ xNotes' = Append(xNotes,
                         [user |-> username, count |-> Len(new),
                          listed |-> listedPosts(new), ok |-> ok])
                  /\ xMem' = [xMem EXCEPT !.users[username] =
                                seenIdsAfter(newIds, seenIds)]
                  /\ xReported' = [xReported EXCEPT ![username] =
                       [once |-> @.once \cup listed,
                        again |-> @.again \cup (@.once \cap listed)]]
  /\ UNCHANGED <<mainVars, diffVars, embedVars, notifyVars, normVars, logVars,
                 sendVars, xRun, xpc, xFile>>

\* main, lines 294-297: the state is saved and the run ends
SavePosts ==
  /\ xpc = "users"
  /\ xIdx > Len(PostUsers)
  /\ xFile' = savePostsState(xMem)
  /\ xpc' = "exited"
  /\ UNCHANGED <<mainVars, diffVars, embedVars, notifyVars, normVars, logVars,
                 sendVars, xRun, xIdx, xMem, xNotes, xReported>>

PostsNext == StartPosts \/ CheckUser \/ SavePosts

PostsSpec == PostsInit /\ [][PostsNext]_vars

(***************************************************************************)
(* Properties.                                                             *)
(***************************************************************************)
AfterBuild == pc \in {"save", "log", "notify", "exit", "exited"}
AfterSave == pc \in {"log", "notify", "exit", "exited"}

GenuineFailure(r) == ~r.success /\ r.configured
MissingCredential(r) == ~r.success /\ ~r.configured

UpdatedIds(changes) ==
  {Val(changes.updated[i].model, "id") : i \in 1..Len(changes.updated)}

Delivered(ch, kind, s) ==
  \E i \in 1..Len(sent) :
    sent[i].channel = ch /\ sent[i].kind = kind /\ sent[i].source = s

ChannelEnables(ch, kind) ==
  /\ discord.enabled
  /\ discord.webhooks[ch].url
  /\ kind \in discord.webhooks[ch].notifyOn

\* C1: after the state write of a run, every source whose final outcome is a
\* failure (genuine or missing credential) has the same persisted snapshot as
\* before the run; only succeeded sources have their snapshot replaced.
C1_FailedSourceKeepsSnapshot ==
  \A s \in Sources :
    (AfterSave /\ stateWritten /\ ~result[s].success)
      => OldModels(stateFile, s) = OldModels(previousState, s)

\* C2: a source that failed in the previous run (snapshot P stored before it)
\* and succeeds in this run with records C gets the delta diff(P, C); with
\* ids(C) = ids(P) nothing is reported as added.
C2_DiffAgainstSnapshotBeforeFailure ==
  \A s \in Sources :
    (AfterBuild /\ prior[s].failed /\ result[s].success)
      => /\ allChanges[s] = compareModels(prior[s].P, result[s].models)
         /\ (Ids(result[s].models) = Ids(prior[s].P)
               => allChanges[s].added = <<>>)

\* C3: a fetched record whose id is in the previous snapshot and which differs
\* from its previously fetched form only in created, updated or modified_at
\* is not in the delta's updated list.
OnlyVolatileDiffers(old, new) ==
  /\ \A k \in ((DOMAIN old) \cup (DOMAIN new)) \ TIMESTAMP_FIELDS :
       Val(old, k) = Val(new, k)
  /\ \E k \in TIMESTAMP_FIELDS : Val(old, k) # Val(new, k)

C3_VolatileFieldNotAnUpdate ==
  \A s \in Sources :
    (AfterBuild /\ result[s].success /\ prior[s].saved)
      => \A i \in 1..Len(result[s].models) :
           \A j \in 1..Len(prior[s].fetched) :
             ( /\ Val(result[s].models[i], "id") = Val(prior[s].fetched[j], "id")
               /\ Val(result[s].models[i], "id") \in Ids(OldModels(previousState, s))
               /\ OnlyVolatileDiffers(prior[s].fetched[j], result[s].models[i]) )
             => Val(result[s].models[i], "id") \notin UpdatedIds(allChanges[s])

\* C4: a source without credential is fetched exactly once in a scan and no
\* retry delay is waited for it, whatever retryAttempts is.
C4_MissingCredentialNotRetried ==
  \A s \in Sources :
    (pc = "scan" /\ spc[s] = "done" /\ ~cred[s])
      => fetches[s] = 1 /\ delays[s] = 0

\* C5: a source with credential whose every attempt fails is fetched exactly
\* retryAttempts + 1 times, and the outcome returned is that of the last of
\* these attempts.
C5_ExactlyRPlusOneAttempts ==
  \A s \in Sources :
    (pc = "scan" /\ spc[s] = "done" /\ cred[s] /\ ~result[s].success)
      => fetches[s] = retryAttempts + 1 /\ result[s] = loopResult[s]

\* C6: no endpoint_error notification is ever sent for a source whose final
\* outcome is a missing-credential failure, in any channel.
C6_NoErrorNotificationForMissingCredential ==
  \A i \in 1..Len(sent) :
    sent[i].kind = "endpoint_error"
      => ~MissingCredential(result[sent[i].source])

C6_Witness ==
  \E s \in Sources :
    /\ pc = "exited"
    /\ MissingCredential(result[s])
    /\ ChannelEnables(EndpointGroup(Endpoints, s), "endpoint_error")
    /\ \E q \in Sources : Delivered(EndpointGroup(Endpoints, q), "endpoint_error", q)

\* C7: the run exits with failure only if every source's final outcome is a
\* failure; with at least one success it exits 0, and when every source
\* genuinely failed it exits 1.
C7_ExitFailureOnlyWhenAllFailed ==
  pc = "exited" =>
    /\ exitCode \in {0, 1}
    /\ (exitCode = 1 => \A s \in Sources : ~result[s].success)
    /\ ((\E s \in Sources : result[s].success) => exitCode = 0)
    /\ ((\A s \in Sources : GenuineFailure(result[s])) => exitCode = 1)

C7_Witness ==
  /\ pc = "exited"
  /\ exitCode = 0
  /\ \E x, y \in Sources :
       /\ result[x].success
       /\ allChanges[x].summary.addedCount = 0
       /\ allChanges[x].summary.removedCount = 0
       /\ allChanges[x].summary.updatedCount = 0
       /\ MissingCredential(result[y])
       /\ \A i \in 1..Len(sent) : sent[i].source # y

\* C8: a run in which every source lacks its credential exits with status 0.
C8_AllUnconfiguredExitsZero ==
  (pc = "exited" /\ \A s \in Sources : MissingCredential(result[s]))
    => exitCode = 0

\* C9: whatever the other sources did, a run that has exited has been through
\* the diffing, the state write, the scan log (written, when the write
\* succeeds, from all results) and the notification pass, and every succeeded
\* source has its delta computed, its snapshot committed (when the write
\* succeeds) and its change notifications dispatched to its channel (when the
\* channel enables them).
C9_FailuresContainedPerSource ==
  /\ pc = "exit" => scanLog \in {logScan(result), NoLog}
  /\ pc = "exited" =>
       /\ \A s \in Sources :
            result[s].success =>
              /\ allChanges[s] =
                   compareModels(OldModels(previousState, s), result[s].models)
              /\ stateWritten =>
                   /\ stateFile.endpoints[s].success
                   /\ stateFile.endpoints[s].models =
                        SeqMap(JSONroundtrip, stripTimestamps(result[s].models))
              /\ \A k \in {<<"new_model", "added">>,
                           <<"removed_model", "removed">>,
                           <<"model_updated", "updated">>} :
                   ( /\ ChannelEnables(EndpointGroup(Endpoints, s), k[1])
                     /\ Len(allChanges[s][k[2]]) > 0 )
                   => Delivered(EndpointGroup(Endpoints, s), k[1], s)

C9_Witness ==
  /\ pc = "exited"
  /\ \E s, q \in Sources :
       /\ result[s].success
       /\ GenuineFailure(result[q])
       /\ Len(allChanges[s].added) > 0
       /\ stateWritten
       /\ Delivered(EndpointGroup(Endpoints, s), "new_model", s)

\* C10: compareModels(S, S) has no added, removed or updated record and all
\* three summary counts are 0, for every record list S with unique ids.
C10_DiffOfSameListIsEmpty ==
  (dpc = "done" /\ dOld = dNew) =>
    /\ dOut.added = <<>>
    /\ dOut.removed = <<>>
    /\ dOut.updated = <<>>
    /\ dOut.summary.addedCount = 0
    /\ dOut.summary.removedCount = 0
    /\ dOut.summary.updatedCount = 0

C10_Witness ==
  /\ dpc = "done"
  /\ dOld = dNew
  /\ Len(dOld) >= 2
  /\ \E i \in 1..Len(dOld) : "created" \in DOMAIN dOld[i]

\* The k-th smallest index of a set of indices.
KthIndex(keep, k) ==
  CHOOSE i \in keep : Cardinality({j \in keep : j <= i}) = k

\* sub is the subsequence of list made of the records at the indices keep
IsSubsequenceAt(sub, list, keep) ==
  /\ Len(sub) = Cardinality(keep)
  /\ \A k \in 1..Len(sub) : sub[k] = list[KthIndex(keep, k)]

\* C11: for all record lists A and B, the ids of compareModels(A, B).added
\* are the ids of compareModels(B, A).removed.
C11_AddedIsRemovedOfTheSwap ==
  dpc = "done" =>
    Ids(dOut.added) = Ids(compareModels(dNew, dOld).removed)

C11_Witness ==
  /\ dpc = "done"
  /\ Len(dOut.added) > 0
  /\ Len(dOut.added) < Len(dNew)
  /\ Len(dOut.removed) > 0

\* C12: added is the subsequence of the current list made of the records
\* whose id equals no id of the previous list, removed the subsequence of the
\* previous list whose id equals no id of the current list; both in their
\* list's order, ids compared exactly (so "a" and "A" are different ids).
C12_AddedAndRemovedAreOrderedSubsequences ==
  dpc = "done" =>
    /\ IsSubsequenceAt(dOut.added, dNew,
         {i \in 1..Len(dNew) :
            \A j \in 1..Len(dOld) : dOld[j].id # dNew[i].id})
    /\ IsSubsequenceAt(dOut.removed, dOld,
         {j \in 1..Len(dOld) :
            \A i \in 1..Len(dNew) : dOld[j].id # dNew[i].id})

C12_Witness ==
  /\ dpc = "done"
  /\ Len(dOut.added) = 2
  /\ dOut.added[1].id = "s:b"
  /\ dOut.added[2].id = "s:A"
  /\ \E j \in 1..Len(dOld) : dOld[j].id = "s:a"
  /\ Len(dOut.removed) = 1

NoPreviousSnapshot(s) ==
  ~previousState.exists \/ ~previousState.endpoints[s].present

\* C14: when the run found no previous snapshot of a source (no state
\* document), a successful scan of that source reports every fetched record
\* as added, in the fetched order, and nothing as removed or updated.
C14_FirstScanReportsEverythingAdded ==
  \A s \in Sources :
    (AfterBuild /\ result[s].success /\ NoPreviousSnapshot(s))
      => /\ allChanges[s].added = result[s].models
         /\ allChanges[s].removed = <<>>
         /\ allChanges[s].updated = <<>>
         /\ allChanges[s].summary.addedCount = Len(result[s].models)

C14_Witness ==
  /\ AfterBuild
  /\ run = 1
  /\ \E s \in Sources :
       /\ result[s].success
       /\ NoPreviousSnapshot(s)
       /\ Len(allChanges[s].added) = 2
       /\ allChanges[s].added[1].id = "s:a"
       /\ allChanges[s].added[2].id = "s:b"

\* the ids of the items handed to the embed builder, in order
ItemIdsOf(items) ==
  [i \in 1..Len(items) |->
     IF eKind = "model_updated" THEN items[i].model.id ELSE items[i].id]

\* the ids a field lists, in order
FieldIds(field) ==
  [i \in 1..Len(field.value) |->
     IF eKind = "model_updated" THEN field.value[i].id ELSE field.value[i]]

RECURSIVE ListedIds(_)
ListedIds(fields) ==
  IF fields = <<>> THEN <<>>
  ELSE FieldIds(Head(fields)) \o ListedIds(Tail(fields))

\* C15: more than 20 items of one kind for a source are rendered as one
\* count-only payload: a single embed that names the source and the total
\* count, links to the persisted state, and enumerates nothing.
C15_CountOnlyAboveThreshold ==
  (epc = "done" /\ Len(eItems) > 20) =>
    /\ Len(ePayload.embeds) = 1
    /\ ePayload.embeds[1].fields = <<>>
    /\ ePayload.embeds[1].count = Len(eItems)
    /\ ePayload.embeds[1].endpoint = eEndpoint
    /\ ePayload.embeds[1].link # "none"

C15_Witness ==
  /\ epc = "done"
  /\ eKind = "new_model"
  /\ Len(eItems) = 21
  /\ ePayload.embeds[1].fields = <<>>
  /\ ePayload.embeds[1].count = 21

\* C16: 1 to 20 items of one kind for a source are rendered as one embed
\* whose groupings, read in order, list every item's id exactly once in the
\* order of the delta; every grouping holds between 1 and 10 items.
C16_EveryItemListedInGroupsOfTen ==
  (epc = "done" /\ Len(eItems) >= 1 /\ Len(eItems) <= 20) =>
    /\ Len(ePayload.embeds) = 1
    /\ ListedIds(ePayload.embeds[1].fields) = ItemIdsOf(eItems)
    /\ \A f \in 1..Len(ePayload.embeds[1].fields) :
         /\ Len(ePayload.embeds[1].fields[f].value) >= 1
         /\ Len(ePayload.embeds[1].fields[f].value) <= 10

C16_Witness ==
  /\ epc = "done"
  /\ eKind = "removed_model"
  /\ Len(eItems) = 20
  /\ eItems[1].id = 20
  /\ Len(ePayload.embeds[1].fields) = 2
  /\ ePayload.embeds[1].fields[2].value[10] = 1

\* the channel a source is assigned to by its configuration
AssignedChannel(s) ==
  IF GroupOf(nEndpoints, s) = Undefined THEN "default"
  ELSE GroupOf(nEndpoints, s)

NotifyEnables(ch, kind) ==
  /\ nConfig.enabled
  /\ nConfig.webhooks[ch].url
  /\ kind \in nConfig.webhooks[ch].notifyOn

Named(msg) == {msg.names[i] : i \in 1..Len(msg.names)}

NotifySent(ch, kind, s) ==
  {i \in 1..Len(nSent) :
     nSent[i].channel = ch /\ nSent[i].kind = kind /\ nSent[i].source = s}

\* whether source s is affected by the event kind
Affected(kind, s) ==
  CASE kind = "new_model" -> Len(nChanges[s].added) > 0
    [] kind = "removed_model" -> Len(nChanges[s].removed) > 0
    [] kind = "model_updated" -> Len(nChanges[s].updated) > 0
    [] kind = "endpoint_error" ->
         ~nResults[s].success /\ nResults[s].configured
    [] OTHER -> FALSE

SourceEventKinds ==
  {"new_model", "removed_model", "model_updated", "endpoint_error"}

\* C17: a source whose configuration names no group is notified through the
\* channel default and no other: every payload naming it goes to default,
\* each of its events enabled in default is sent there, and its delta counts
\* into default's summary.
C17_UnassignedSourceUsesDefaultChannel ==
  npc = "done" =>
    \A s \in NotifySources :
      GroupOf(nEndpoints, s) = Undefined =>
        /\ \A i \in 1..Len(nSent) :
             s \in Named(nSent[i]) => nSent[i].channel = "default"
        /\ \A kind \in SourceEventKinds :
             (NotifyEnables("default", kind) /\ Affected(kind, s))
               => NotifySent("default", kind, s) # {}
        /\ (NotifyEnables("default", "summary_with_changes")
            /\ ChangeCount(nChanges, s) > 0)
             => \E i \in NotifySent("default", "summary_with_changes", "") :
                  /\ s \in Named(nSent[i])
                  /\ nSent[i].count >= ChangeCount(nChanges, s)

C17_Witness ==
  /\ npc = "done"
  /\ GroupOf(nEndpoints, "s2") = Undefined
  /\ GroupOf(nEndpoints, "s1") = "small"
  /\ NotifySent("default", "new_model", "s2") # {}
  /\ NotifySent("small", "new_model", "s1") # {}
  /\ \E i \in NotifySent("default", "summary_with_changes", "") :
       "s2" \in Named(nSent[i])

\* the sum of the added, removed and updated counts of a channel's members
MemberTotal(ch) ==
  LET Count(s) == IF AssignedChannel(s) = ch THEN ChangeCount(nChanges, s)
                  ELSE 0
  IN SumOver(Count, NotifyNames)

\* C18: a channel gets at most one summary per run, and only when the
\* added, removed and updated counts of its own member sources sum to more
\* than zero; the summary carries that sum.  (The code has no always-on
\* option.)
C18_SummaryOnlyForOwnChanges ==
  npc = "done" =>
    \A ch \in Channels :
      /\ Cardinality(NotifySent(ch, "summary_with_changes", "")) <= 1
      /\ \A i \in NotifySent(ch, "summary_with_changes", "") :
           /\ MemberTotal(ch) > 0
           /\ nSent[i].count = MemberTotal(ch)

C18_Witness ==
  /\ npc = "done"
  /\ NotifyEnables("default", "summary_with_changes")
  /\ NotifyEnables("small", "summary_with_changes")
  /\ MemberTotal("default") = 0
  /\ \E s \in NotifySources : AssignedChannel(s) = "default"
  /\ NotifySent("default", "summary_with_changes", "") = {}
  /\ \E i \in NotifySent("small", "summary_with_changes", "") :
       nSent[i].count = 3

\* C19: every payload other than a summary names exactly one source, a
\* member of the channel it is sent to, and each affected member of a
\* channel gets exactly one payload per enabled event kind; a summary names
\* exactly the member sources of its channel and is the only one of its
\* channel.
C19_OnePayloadPerSourceAndKind ==
  npc = "done" =>
    /\ \A i \in 1..Len(nSent) :
         IF nSent[i].kind = "summary_with_changes"
         THEN /\ Named(nSent[i]) =
                   {s \in NotifySources : AssignedChannel(s) = nSent[i].channel}
              /\ Len(nSent[i].names) = Cardinality(Named(nSent[i]))
         ELSE /\ nSent[i].names = <<nSent[i].source>>
              /\ AssignedChannel(nSent[i].source) = nSent[i].channel
    /\ \A i, j \in 1..Len(nSent) :
         ( /\ nSent[i].channel = nSent[j].channel
           /\ nSent[i].kind = nSent[j].kind
           /\ nSent[i].source = nSent[j].source ) => i = j
    /\ \A s \in NotifySources : \A kind \in SourceEventKinds :
         ( /\ AssignedChannel(s) \in Channels
           /\ NotifyEnables(AssignedChannel(s), kind)
           /\ Affected(kind, s) )
           => Cardinality(NotifySent(AssignedChannel(s), kind, s)) = 1

C19_Witness ==
  /\ npc = "done"
  /\ AssignedChannel("s1") = "small"
  /\ AssignedChannel("s2") = "small"
  /\ NotifySent("small", "new_model", "s1") # {}
  /\ NotifySent("small", "new_model", "s2") # {}
  /\ ~nResults["s3"].success /\ nResults["s3"].configured
  /\ AssignedChannel("s3") = "small"
  /\ NotifySent("small", "endpoint_error", "s3") # {}
  /\ \E i \in NotifySent("small", "summary_with_changes", "") :
       nSent[i].names = <<"s1", "s2", "s3">>

\* the calls made, whatever the sink answered
Attempts(msgs) ==
  [i \in 1..Len(msgs) |->
     [channel |-> msgs[i].channel, kind |-> msgs[i].kind,
      source |-> msgs[i].source, names |-> msgs[i].names,
      count |-> msgs[i].count]]

\* C20: the notifications attempted in a run are those attempted when every
\* sink accepts its POSTs, so a rejected POST stops no later notification of
\* the same or another channel; and the exit status is the one the scan
\* results give, whatever the sinks answered.
C20_SinkFailureStopsNothing ==
  /\ pc \in {"exit", "exited"} =>
       Attempts(sent) =
         Attempts(processNotifications([discord EXCEPT !.sinkUp = AllUp],
                                       result, allChanges, Endpoints))
  /\ pc = "exited" =>
       exitCode = IF \A s \in Sources : ~result[s].success THEN 1 ELSE 0

C20_Witness ==
  /\ pc = "exited"
  /\ exitCode = 0
  /\ \E i, j, k \in 1..Len(sent) :
       /\ i < j /\ j < k
       /\ sent[i].channel = "default" /\ ~sent[i].ok
       /\ sent[j].channel = "default" /\ ~sent[j].ok
       /\ sent[i].kind # sent[j].kind
       /\ sent[k].channel = "small" /\ sent[k].ok

\* position of an event kind in the order the claim takes from section 4.5
ListedKindRank(kind) ==
  CASE kind = "new_model" -> 1
    [] kind = "removed_model" -> 2
    [] kind = "model_updated" -> 3
    [] kind = "endpoint_error" -> 4
    [] kind = "summary_with_changes" -> 5

\* position of an event kind in the order of dispatch
DispatchKindRank(kind) ==
  CASE kind = "summary_with_changes" -> 1
    [] kind = "endpoint_error" -> 2
    [] kind = "new_model" -> 3
    [] kind = "removed_model" -> 4
    [] kind = "model_updated" -> 5

\* C21 (as claimed): within one channel the notifications are sent in the
\* order new_model, removed_model, model_updated, endpoint_error,
\* summary_with_changes, all of one kind before any of the next.
C21_ListedKindOrder ==
  npc = "done" =>
    \A i, j \in 1..Len(nSent) :
      (i < j /\ nSent[i].channel = nSent[j].channel)
        => ListedKindRank(nSent[i].kind) <= ListedKindRank(nSent[j].kind)

\* C21 (amended): within one channel the notifications are sent in the
\* order summary_with_changes, endpoint_error, new_model, removed_model,
\* model_updated, all of one kind before any of the next; nothing is
\* required between different channels.
C21_DispatchKindOrder ==
  npc = "done" =>
    \A i, j \in 1..Len(nSent) :
      (i < j /\ nSent[i].channel = nSent[j].channel)
        => DispatchKindRank(nSent[i].kind) <= DispatchKindRank(nSent[j].kind)

C21_Witness ==
  /\ npc = "done"
  /\ \A kind \in EventKinds :
       \E i \in 1..Len(nSent) :
         nSent[i].channel = "small" /\ nSent[i].kind = kind
  /\ \E i, j \in 1..Len(nSent) :
       /\ i < j
       /\ nSent[i].channel = "small" /\ nSent[j].channel = "small"
       /\ nSent[i].kind = "model_updated" /\ nSent[j].kind = "model_updated"

\* C22: a 2xx response whose body is well-formed JSON of no recognised shape
\* (null, a scalar, an object without a data or models list) gives a Success
\* with zero records, never a Failure.
C22_UnrecognisedShapeIsEmptySuccess ==
  (fpc = "done" /\ fData.kind \in {"null", "scalar", "object"}) =>
    /\ fOut.success
    /\ fOut.models = <<>>

\* C23: for a body of a supported shape that was normalized, every field of
\* every raw record is in a normalized record under the same key with the
\* same value, and there are as many normalized records as raw ones.
C23_EveryRawFieldIsKept ==
  (fpc = "done" /\ fOut.success
   /\ fData.kind \in {"data", "array", "models"}) =>
    /\ Len(fOut.models) = Len(fData.items)
    /\ \A i \in 1..Len(fData.items) :
         \E j \in 1..Len(fOut.models) :
           \A k \in DOMAIN fData.items[i] :
             /\ k \in DOMAIN fOut.models[j]
             /\ fOut.models[j][k] = fData.items[i][k]

\* the bodies with the items of `data` in another order
Reordered(data) ==
  LET n == Len(data.items)
      perms == {p \in [1..n -> 1..n] : \A i, j \in 1..n : i # j => p[i] # p[j]}
  IN { [data EXCEPT !.items = [i \in 1..n |-> data.items[p[i]]]] : p \in perms }

SortedById(models) ==
  \A i, j \in 1..Len(models) :
    i < j => Rank(Val(models[i], "id")) <= Rank(Val(models[j], "id"))

SameUnderEveryOrder ==
  \A d \in Reordered(fData) :
    \A o \in Respond2xx(fEndpoint, d) :
      o.success => o.models = fOut.models

DistinctIds(models) ==
  \A i, j \in 1..Len(models) :
    i # j => Val(models[i], "id") # Val(models[j], "id")

\* C24 (as claimed): every normalized record list is in ascending order of
\* id, and a body with the same records in another order normalizes to the
\* same list.
C24_SortedAndOrderIndependent ==
  (fpc = "done" /\ fOut.success) =>
    /\ SortedById(fOut.models)
    /\ SameUnderEveryOrder

\* C24 (amended): every normalized record list is in ascending order of id,
\* and when its records have pairwise distinct ids a body with the same
\* records in another order normalizes to the same list.
C24_SortedAndOrderIndependentForDistinctIds ==
  (fpc = "done" /\ fOut.success) =>
    /\ SortedById(fOut.models)
    /\ DistinctIds(fOut.models) => SameUnderEveryOrder

C24_Witness ==
  /\ fpc = "done"
  /\ fOut.success
  /\ fData.kind = "data"
  /\ Len(fData.items) = 2
  /\ fData.items[1].id = "s:b"
  /\ fData.items[2].id = "s:A"
  /\ fOut.models[1].id = "s:A"
  /\ fOut.models[2].id = "s:b"

\* C25: while a scan is under way, every source that has not returned yet can
\* take the next step of its own fetch-and-retry sequence (an attempt, the
\* end of its retry delay, the fetch after the loop) wherever the other
\* sources are in theirs.
C25_SourcesRetryIndependently ==
  pc = "scan" =>
    \A s \in Sources :
      /\ spc[s] = "loop" => ENABLED LoopAttempt(s)
      /\ spc[s] = "delay" => ENABLED RetryDelay(s)
      /\ spc[s] = "last" => ENABLED LastFetch(s)

\* s2 has failed, waited, retried and returned while s1, earlier in the
\* configuration, is still waiting out its first retry delay
C25_Witness ==
  /\ pc = "scan"
  /\ spc["s1"] = "delay"
  /\ fetches["s1"] = 1
  /\ spc["s2"] = "done"
  /\ delays["s2"] >= 1
  /\ fetches["s2"] >= 2

\* the outcome source s has in this run whatever the order of the steps: the
\* missing-key outcome, or the one answer its endpoint gives
Expected ==
  [s \in Sources |->
     IF ~cred[s] THEN Unconfigured(s) ELSE responses[s].outcome]

ScanReturned == pc \in {"save", "log", "notify", "exit", "exited"}

\* C26: with every source answering one fixed way, the scan returns; once it
\* has, the outcome kept for each source is that source's own; the deltas,
\* the state document written and the notifications sent are the ones
\* computed from these outcomes, whatever the order the sources' steps took.
C26_ScanReturnsOneOutcomePerSource ==
  /\ <>ScanReturned
  /\ [](ScanReturned =>
         /\ \A s \in Sources :
              result[s] = Expected[s] /\ result[s].endpoint = s
         /\ allChanges = buildChanges(previousState, Expected)
         /\ pc \in {"log", "notify", "exit", "exited"} =>
              IF stateWritten
              THEN stateFile = saveState(previousState, Expected)
              ELSE getPreviousState(stateFile) = previousState
         /\ pc \in {"exit", "exited"} =>
              sent = processNotifications(
                       discord, Expected,
                       buildChanges(previousState, Expected), Endpoints))

\* a finished run in which s1 failed and s2, answering with records the
\* previous state did not have, succeeded; the state was written and both
\* an error and a new-model notification were sent
C26_Witness ==
  /\ pc = "exited"
  /\ ~result["s1"].success
  /\ result["s1"].configured
  /\ result["s2"].success
  /\ allChanges["s2"].added # <<>>
  /\ stateWritten
  /\ \E i, j \in 1..Len(sent) :
       /\ sent[i].kind = "endpoint_error" /\ sent[i].source = "s1"
       /\ sent[j].kind = "new_model" /\ sent[j].source = "s2"

\* the endpoint_error notifications of this run that name source s
ErrorsSent(s) ==
  {i \in 1..Len(sent) :
     sent[i].kind = "endpoint_error" /\ sent[i].source = s}

\* C27: when a run has sent its notifications, every source that has its key
\* and whose final outcome is a failure has exactly one endpoint_error
\* notification, sent to the channel of its group, provided that channel
\* enables endpoint_error.
C27_GenuineFailureReportedOnce ==
  pc \in {"exit", "exited"} =>
    \A s \in Sources :
      ( /\ GenuineFailure(result[s])
        /\ ChannelEnables(EndpointGroup(Endpoints, s), "endpoint_error") )
        => /\ Cardinality(ErrorsSent(s)) = 1
           /\ \A i \in ErrorsSent(s) :
                /\ sent[i].channel = EndpointGroup(Endpoints, s)
                /\ sent[i].names = <<s>>

\* s2, of group small, has failed for good in a later run, its channel
\* enables endpoint_error and the notification is among those sent
C27_Witness ==
  /\ pc = "exited"
  /\ run >= 2
  /\ GenuineFailure(result["s2"])
  /\ result["s1"].success
  /\ ChannelEnables("small", "endpoint_error")
  /\ Delivered("small", "endpoint_error", "s2")

\* C28: after a state write that succeeded, no record of any source's stored
\* snapshot has a key created, updated or modified_at; the snapshot has as
\* many records as the source's current list and, record by record, every
\* other key with the value it has there and no key besides, whatever the
\* snapshot stored before.
C28_StoredSnapshotIsStrippedCurrentList ==
  (pc = "log" /\ stateWritten) =>
    \A s \in Sources :
      LET stored == stateFile.endpoints[s].models
          current == result[s].models
      IN /\ stateFile.endpoints[s].present
         /\ Len(stored) = Len(current)
         /\ \A i \in 1..Len(stored) :
              /\ DOMAIN stored[i] \cap TIMESTAMP_FIELDS = {}
              /\ \A k \in (DOMAIN stored[i] \cup DOMAIN current[i])
                            \ TIMESTAMP_FIELDS :
                   Val(stored[i], k) = Val(current[i], k)

\* s1 had a one-record snapshot; its two current records carry all three
\* timestamp keys between them, and the write succeeded
C28_Witness ==
  /\ pc = "log"
  /\ stateWritten
  /\ Len(OldModels(previousState, "s1")) = 1
  /\ Len(result["s1"].models) = 2
  /\ "created" \in DOMAIN result["s1"].models[1]
  /\ "modified_at" \in DOMAIN result["s1"].models[2]
  /\ "updated" \in DOMAIN result["s1"].models[2]
  /\ Len(stateFile.endpoints["s1"].models) = 2

\* the key names a secret: it contains, in any case, one of the six words
NamesSecret(key) ==
  \E word \in {"key", "token", "secret", "password", "auth", "bearer"} :
    includes(toLowerCase(key), Chars(word))

\* no value under a secret-naming key, at any depth of value, is anything
\* but the redaction marker
RECURSIVE SecretsRedacted(_)
SecretsRedacted(value) ==
  value.t \in {"obj", "arr"} =>
    \A i \in 1..Len(value.e) :
      IF NamesSecret(value.e[i].k)
      THEN value.e[i].v = Str(REDACTED)
      ELSE SecretsRedacted(value.e[i].v)

\* C29: in a scan log entry that was written, every value under a key whose
\* name contains key, token, secret, password, auth or bearer, in any case
\* and at any depth of the results and of the changes, is the redaction
\* marker.
C29_SecretKeysRedactedAtEveryDepth ==
  (zpc = "done" /\ zLog # NoLogFile) =>
    /\ SecretsRedacted(Get(zLog, "results"))
    /\ SecretsRedacted(Get(zLog, "changes"))

\* the entry was written for a scan in which s1's record b, updated since the
\* last scan, carried secrets under apiKey, meta.Client_Secret,
\* meta.limits.access.PassWord and tags[1].AUTH
C29_Witness ==
  /\ zpc = "done"
  /\ zLog # NoLogFile
  /\ Get(Get(zResults, "0"), "models") # Undef
  /\ LET record == Get(Get(Get(zResults, "0"), "models"), "1")
         logged == Get(Get(Get(Get(zLog, "results"), "0"), "models"), "1")
         delta == Get(Get(Get(Get(zLog, "changes"), "s1"), "updated"), "0")
     IN /\ Get(record, "apiKey") = Str(SecretValue)
        /\ Get(Get(record, "meta"), "Client_Secret") = Str(SecretValue)
        /\ Get(Get(Get(Get(record, "meta"), "limits"), "access"), "PassWord")
             = Str(SecretValue)
        /\ Get(Get(Get(record, "tags"), "1"), "AUTH") = Str(SecretValue)
        /\ Get(Get(logged, "meta"), "Client_Secret") = Str(REDACTED)
        /\ Get(Get(delta, "changes"), "apiKey") = Str(REDACTED)

\* the text has "Bearer " with a token behind it
BearerTokenIn(text) ==
  \E i \in 1..Len(text) :
    /\ i + 7 <= Len(text)
    /\ SubSeq(text, i, i + 6) = Chars("Bearer ")
    /\ Run(text, i + 7, "token") >= 1

\* some string at some depth of value has a bearer token
RECURSIVE BearerTokenWithin(_)
BearerTokenWithin(value) ==
  \/ value.t = "str" /\ BearerTokenIn(value.s)
  \/ /\ value.t \in {"obj", "arr"}
     /\ \E i \in 1..Len(value.e) : BearerTokenWithin(value.e[i].v)

\* C30: no string of a scan log entry that was written contains "Bearer "
\* followed by a token.
C30_NoBearerTokenInLog ==
  (zpc = "done" /\ zLog # NoLogFile) => ~BearerTokenWithin(zLog)

\* every channel has its webhook, enables every event kind and accepts its
\* POSTs, and every source belongs to one of the channels
FullFanOut ==
  /\ nConfig.enabled
  /\ nConfig.sinkUp = AllUp
  /\ \A ch \in Channels :
       nConfig.webhooks[ch].url /\ nConfig.webhooks[ch].notifyOn = EventKinds
  /\ \A s \in NotifySources : AssignedChannel(s) \in Channels

\* the number of change events of a kind source s has in this run
EventCount(kind, s) ==
  CASE kind = "new_model" -> Len(nChanges[s].added)
    [] kind = "removed_model" -> Len(nChanges[s].removed)
    [] kind = "model_updated" -> Len(nChanges[s].updated)
    [] kind = "endpoint_error" ->
         IF ~nResults[s].success /\ nResults[s].configured THEN 1 ELSE 0

\* the notifications of a kind, to whatever channel, that name source s
Carrying(kind, s) ==
  {i \in 1..Len(nSent) : nSent[i].kind = kind /\ s \in Named(nSent[i])}

C32_PersistenceFailureContained ==
  /\ (pc = "exit" /\ (~stateWritten \/ scanLog = NoLog)) =>
       sent = processNotifications(discord, result, allChanges, Endpoints)
  /\ (pc = "exited" /\ ~stateWritten) =>
       /\ sent = processNotifications(discord, result, allChanges, Endpoints)
       /\ exitCode = exitStatus(result)

C32_Witness ==
  /\ pc = "exit"
  /\ ~stateWritten
  /\ scanLog = NoLog
  /\ \E s \in Sources : result[s].success /\ allChanges[s].added # <<>>
  /\ \E i \in 1..Len(sent) : sent[i].kind = "new_model" /\ sent[i].ok

\* C33: within a scan a source with credential is fetched again only after a
\* failed attempt: a successful attempt ends its fetching and is the outcome
\* returned, and the first attempt is followed by at most retryAttempts
\* further ones.
C33_RetriesOnlyAfterFailure ==
  \A s \in Sources :
    (pc = "scan" /\ cred[s]) =>
      /\ (loopResult[s] # NoResult /\ loopResult[s].success) =>
            spc[s] = "done" /\ result[s] = loopResult[s]
      /\ fetches[s] <= 1 + retryAttempts

\* C34: with a retry delay above zero, every two consecutive attempts of a
\* source with credential are separated by one delay: a source about to be
\* fetched has waited once per earlier attempt, and a source that is done
\* has waited once less than it was fetched.
C34_OneDelayBetweenAttempts ==
  \A s \in Sources :
    (pc = "scan" /\ cred[s] /\ retryDelay > 0) =>
      /\ spc[s] \in {"loop", "last"} => delays[s] = fetches[s]
      /\ spc[s] = "done" => delays[s] = fetches[s] - 1

\* C35: when sendDiscordWebhook has a URL and every POST succeeded, every
\* posted message has between 1 and 10 embeds, every posted embed has at most
\* 50 counted lines or a single field, is a run of consecutive fields of the
\* payload's embed of its title, and the fields of the posted embeds, in
\* posting order, are the fields of the payload's embeds.
RECURSIVE FieldsFrom(_, _)
FieldsFrom(embeds, k) ==
  IF k > Len(embeds) THEN <<>>
  ELSE embeds[k].fields \o FieldsFrom(embeds, k + 1)

RECURSIVE PostedFrom(_, _)
PostedFrom(posts, k) ==
  IF k > Len(posts) THEN <<>>
  ELSE posts[k].embeds \o PostedFrom(posts, k + 1)

IsSlice(part, whole) ==
  \E a \in 1..(Len(whole) + 1) :
    /\ a + Len(part) - 1 <= Len(whole)
    /\ part = SubSeq(whole, a, a + Len(part) - 1)

C35_PayloadDeliveredWithinBounds ==
  (wpc = "done" /\ wReturn = TRUE) =>
    LET posted == PostedFrom(wPosts, 1)
    IN  /\ \A i \in 1..Len(wPosts) :
             Len(wPosts[i].embeds) \in 1..MAX_EMBEDS_PER_MESSAGE
        /\ \A j \in 1..Len(posted) :
             /\ \/ totalModels(posted[j]) <= MAX_MODELS_PER_EMBED
                \/ Len(posted[j].fields) = 1
             /\ \E k \in 1..Len(wPayload.embeds) :
                  /\ posted[j].title = wPayload.embeds[k].title
                  /\ IsSlice(posted[j].fields, wPayload.embeds[k].fields)
        /\ FieldsFrom(posted, 1) = FieldsFrom(wPayload.embeds, 1)

C35_Witness ==
  /\ wpc = "done"
  /\ wReturn = TRUE
  /\ Len(wPosts) >= 2
  /\ Len(wPosts[1].embeds) = MAX_EMBEDS_PER_MESSAGE
  /\ \E k \in 1..Len(wPayload.embeds) :
       /\ Len(wPayload.embeds[k].fields) = 3
       /\ totalModels(wPayload.embeds[k]) > MAX_MODELS_PER_EMBED
       /\ fieldCount(wPayload.embeds[k].fields[3]) > MAX_MODELS_PER_EMBED
  /\ \E i \in 1..Len(wPosts) : \E j \in 1..Len(wPosts[i].embeds) :
       Len(wPosts[i].embeds[j].fields) = 2

\* C36: a source that succeeded in the previous run, whose state was saved,
\* and that returns the same records in this run has an empty delta, and the
\* run sends no new_model, removed_model or model_updated notification for
\* it.
C36_IdenticalResponseEmptyDelta ==
  \A s \in Sources :
    ( /\ AfterBuild
      /\ result[s].success
      /\ prior[s].saved
      /\ result[s].models = prior[s].fetched ) =>
        /\ allChanges[s].added = <<>>
        /\ allChanges[s].removed = <<>>
        /\ allChanges[s].updated = <<>>
        /\ pc \in {"exit", "exited"} =>
             \A i \in 1..Len(sent) :
               sent[i].source = s => sent[i].kind = "endpoint_error"

\* C37: for record lists with unique ids the result of compareModels is a
\* consistent partition: the ids of added, removed and updated are pairwise
\* disjoint, every updated id is in both lists, the ids of added together
\* with the ids common to both lists are the ids of the current list, and
\* the three summary counts are the lengths of the three lists.
C37_DeltaIsConsistentPartition ==
  dpc = "done" =>
    LET A == Ids(dOut.added)
        R == Ids(dOut.removed)
        U == UpdatedIds(dOut)
        common == Ids(dOld) \cap Ids(dNew)
    IN  /\ A \cap R = {}
        /\ A \cap U = {}
        /\ R \cap U = {}
        /\ U \subseteq common
        /\ A \cup common = Ids(dNew)
        /\ dOut.summary.addedCount = Len(dOut.added)
        /\ dOut.summary.removedCount = Len(dOut.removed)
        /\ dOut.summary.updatedCount = Len(dOut.updated)

C37_Witness ==
  /\ dpc = "done"
  /\ Len(dOld) = 2
  /\ Len(dNew) = 2
  /\ Len(dOut.added) = 1
  /\ Len(dOut.removed) = 1
  /\ Len(dOut.updated) = 1
  /\ dOut.summary.updatedCount = 1

\* C38: a run that starts with the state document missing, unreadable or not
\* parseable runs to its exit; every successfully scanned source has all its
\* fetched records as added and none removed or updated; and the state write
\* of the run, when it succeeds, replaces the document by the one made from
\* the current results.
Unusable(file) == ~file.exists \/ Damaged(file)

C38_UnusableStateTreatedAsAbsent ==
  /\ [](\A s \in Sources :
          (pc = "save" /\ Unusable(stateFile) /\ result[s].success) =>
            /\ allChanges[s].added = result[s].models
            /\ allChanges[s].removed = <<>>
            /\ allChanges[s].updated = <<>>)
  /\ [][(pc = "save" /\ Unusable(stateFile) /\ stateWritten') =>
          /\ stateFile' = saveState(stateFile, result)
          /\ ~Unusable(stateFile')]_vars
  /\ (pc = "scan" /\ Unusable(stateFile)) ~> (pc = "exited")

C38_Witness ==
  /\ pc = "save"
  /\ Damaged(stateFile)
  /\ stateFile.damage = "unparseable"
  /\ \E s \in Sources :
       /\ result[s].success
       /\ Len(allChanges[s].added) = 2
       /\ Ids(allChanges[s].added) = Ids(stateFile.endpoints[s].models)

\* C39: in the posts watcher no post id of a user is listed in a delivered
\* new-posts notification of a later run after it was listed in one before.
C39_PostNotifiedAtMostOnce ==
  \A i \in 1..Len(PostUsers) : xReported[PostUsers[i]].again = {}

====
